---- MODULE Spec2Model ----
(***************************************************************************)
(* MaxCLI: the module manager (modules_config.json, enable / disable /     *)
(* load / load_and_register), the docker cleanup command, the SSH target   *)
(* profiles, the SSH key backup, config restore and git sync, as state     *)
(* machines translated from src/maxcli/modules/module_manager.py,          *)
(* src/maxcli/commands/docker.py, src/maxcli/ssh_manager.py,               *)
(* src/maxcli/ssh_backup.py, src/maxcli/modules/config_manager.py,         *)
(* src/maxcli/commands/git.py and src/maxcli/config.py.                    *)
(*                                                                         *)
(* A Python dict is a function whose domain is its set of keys; a Python   *)
(* list is a sequence.  The text of modules_config.json is a sequence of   *)
(* <<key, value>> pairs in the order they stand in the file.               *)
(***************************************************************************)
EXTENDS Integers, Sequences, FiniteSets, TLC

VARIABLES
    file,                     \* contents of MODULES_CONFIG_FILE on disk
    DEFAULT_ENABLED_MODULES,  \* the module-level list object of that name
    ops,                      \* number of enable/disable calls made so far
    ret,                      \* the last call: operation, argument, outcome
    docker,                   \* the docker clean run: arguments, environment, calls issued
    targets,                  \* SSH_TARGETS_FILE on disk: contents and permission mode
    cli,                      \* the last invocation of the command line: command, outcome, exit code
    procs,                    \* two invocations of the command line running at the same time
    home,                     \* the files an SSH key export or import works on
    confdir,                  \* the configuration directory a config restore works on
    git,                      \* the git sync run: environment and git commands issued
    personal                  \* CONFIG_FILE (config.json) on disk

vars == <<file, DEFAULT_ENABLED_MODULES, ops, ret, docker, targets, cli, procs, home,
          confdir, git, personal>>

(***************************************************************************)
(* Bounds                                                                  *)
(***************************************************************************)
\* calls of enable_module / disable_module in one run
MaxOps == 2
\* length of the enabled_modules lists drawn for load_and_register_modules
MaxEnabled == 2

(***************************************************************************)
(* Small helpers                                                           *)
(***************************************************************************)
Range(s) == {s[i] : i \in 1..Len(s)}

\* x in list
In(x, s) == x \in Range(s)

\* Remove with the removal left out
Remove_None(s, x) == s

\* list.remove(x): drops the first occurrence of x (x is known to occur)
Remove(s, x) ==
    LET i == CHOOSE j \in 1..Len(s) : s[j] = x /\ \A k \in 1..(j-1) : s[k] # x
    IN  SubSeq(s, 1, i-1) \o SubSeq(s, i+1, Len(s))

NoDuplicates(s) == \A i, j \in 1..Len(s) : s[i] = s[j] => i = j

(***************************************************************************)
(* The static registry                                                     *)
(***************************************************************************)
AVAILABLE_MODULES ==
    [ssh_manager |->
        [description |-> "Complete SSH management: connections, keys, backups, and file transfers with GPG encryption and rsync",
         commands |-> <<"ssh">>],
     docker_manager |->
        [description |-> "Docker container management, image operations, and development environments",
         commands |-> <<"docker">>],
     kubernetes_manager |->
        [description |-> "Kubernetes context switching and cluster management",
         commands |-> <<"kctx", "kubectl", "k8s">>],
     gcp_manager |->
        [description |-> "Google Cloud Platform configuration and authentication management",
         commands |-> <<"gcp", "gcloud">>],
     coolify_manager |->
        [description |-> "Coolify instance management through REST API",
         commands |-> <<"coolify">>],
     setup_manager |->
        [description |-> "Development environment setup and configuration profiles",
         commands |-> <<"setup">>],
     misc_manager |->
        [description |-> "Database backup utilities, CSV data processing, and application deployment tools",
         commands |-> <<"backup-db", "deploy-app", "process-csv">>],
     config_manager |->
        [description |-> "Personal configuration management with init, backup, and restore functionality",
         commands |-> <<"config">>],
     git_manager |->
        [description |-> "Simplified Git operations with safety checks: WIP commits, branch cleanup, safe force push, and sync workflows",
         commands |-> <<"git">>],
     devtools_manager |->
        [description |-> "Developer utilities: JWT decoding, base64 operations, and other common development tools",
         commands |-> <<"decode">>]]

\* get_available_modules(): set(AVAILABLE_MODULES.keys())
get_available_modules == DOMAIN AVAILABLE_MODULES

\* the value DEFAULT_ENABLED_MODULES is bound to when the module is imported
DefaultEnabledAtImport ==
    <<"ssh_manager", "setup_manager", "config_manager", "git_manager", "devtools_manager">>

\* the names disable_module and load_and_register_modules treat as consolidated
LegacySshModules == {"ssh_backup", "ssh_rsync"}

\* names given to enable_module / disable_module: registered modules that are and
\* are not enabled by default, the one with Python dependencies, a consolidated SSH
\* module, and names the registry does not know
ModuleNames ==
    {"ssh_manager", "git_manager", "docker_manager", "kubernetes_manager",
     "ssh_backup", "", "nonexistent_module"}

\* datetime.now(timezone.utc).strftime(...): the clock is not modelled, one reading
created_at_now == "2024-01-01T00:00:00Z"

(***************************************************************************)
(* JSON text: json.dump(config, f, indent=2, sort_keys=True) and json.load *)
(***************************************************************************)
\* every key that occurs in a config, in the order sorted() puts strings
KeyOrder ==
    <<"", "bootstrap_version", "commands", "config_manager", "coolify_manager",
      "created_at", "dependencies", "description", "devtools_manager",
      "docker_manager", "enabled", "enabled_modules", "gcp_manager",
      "git_manager", "kubernetes_manager", "misc_manager", "module_info",
      "nonexistent_module", "setup_manager", "ssh_backup", "ssh_manager",
      "ssh_rsync">>

\* the keys of a dict in sorted order
SortedKeys(d) == SelectSeq(KeyOrder, LAMBDA k : k \in DOMAIN d)

\* one dict written with sort_keys=True: its items in key order
DumpDict(d) ==
    LET keys == SortedKeys(d)
    IN  [i \in 1..Len(keys) |-> <<keys[i], d[keys[i]]>>]

\* the dict json.load builds from the items of one object (a repeated key keeps the last value)
ParseDict(items) ==
    [k \in {items[i][1] : i \in 1..Len(items)} |->
        items[CHOOSE i \in 1..Len(items) :
                 items[i][1] = k /\ \A j \in (i+1)..Len(items) : items[j][1] # k][2]]

\* json.dump of a whole config: nested dicts are written sorted as well
JsonDump(config) ==
    LET enc(k, v) ==
            IF k = "module_info"
            THEN DumpDict([n \in DOMAIN v |-> DumpDict(v[n])])
            ELSE v
        keys == SortedKeys(config)
    IN  [i \in 1..Len(keys) |-> <<keys[i], enc(keys[i], config[keys[i]])>>]

\* json.load of a whole config file
JsonLoad(text) ==
    LET top == ParseDict(text)
        dec(k, v) ==
            IF k = "module_info"
            THEN LET info == ParseDict(v) IN [n \in DOMAIN info |-> ParseDict(info[n])]
            ELSE v
    IN  [k \in DOMAIN top |-> dec(k, top[k])]

(***************************************************************************)
(* The file on disk                                                        *)
(***************************************************************************)
\* MODULES_CONFIG_FILE does not exist
MissingFile == [kind |-> "missing", text |-> <<>>]
\* the file exists and json.load raises JSONDecodeError
MalformedFile == [kind |-> "malformed", text |-> <<>>]
\* the file exists and its bytes are not valid UTF-8: reading raises UnicodeDecodeError
UndecodableFile == [kind |-> "undecodable", text |-> <<>>]
\* the file holds one JSON object
JsonFile(text) == [kind |-> "json", text |-> text]

\* what one call of save_modules_config meets: the write succeeds, or the directory
\* cannot be made or the file cannot be opened for writing (IOError / OSError)
SaveOutcomes == {"ok", "denied"}

\* save_modules_config(config): the file afterwards; the call returns (out = "ok")
save_modules_config(config, f, out) ==
    CASE out = "ok"      -> JsonFile(JsonDump(config))
      [] out = "denied"  -> f

(***************************************************************************)
(* Building and repairing configs                                          *)
(***************************************************************************)
\* create_config_with_modules(enabled_modules)
create_config_with_modules(enabled_modules) ==
    LET module_info ==
            [module_name \in DOMAIN AVAILABLE_MODULES |->
                [enabled |-> In(module_name, enabled_modules),
                 description |-> AVAILABLE_MODULES[module_name].description,
                 commands |-> AVAILABLE_MODULES[module_name].commands,
                 dependencies |-> <<>>]]
    IN  ("enabled_modules" :> enabled_modules) @@
        ("module_info" :> module_info) @@
        ("created_at" :> created_at_now) @@
        ("bootstrap_version" :> "1.0.0")

\* dict.get(key) != value, where a missing key gives None
GetDiffers(d, key, value) == IF key \in DOMAIN d THEN d[key] # value ELSE TRUE

\* update_module_info_if_needed emptying the dependencies of every entry it visits
update_module_info_if_needed_ResetsDependencies(config) ==
    LET had_info == "module_info" \in DOMAIN config
        old_info == IF had_info THEN config["module_info"] ELSE <<>>
        enabled_modules ==
            IF "enabled_modules" \in DOMAIN config THEN Range(config["enabled_modules"]) ELSE {}
        fresh(module_name) ==
            [enabled |-> module_name \in enabled_modules,
             description |-> AVAILABLE_MODULES[module_name].description,
             commands |-> AVAILABLE_MODULES[module_name].commands,
             dependencies |-> <<>>]
        repaired(module_name) ==
            LET existing == old_info[module_name]
            IN  ("enabled" :> (module_name \in enabled_modules)) @@
                ("description" :> AVAILABLE_MODULES[module_name].description) @@
                ("commands" :> AVAILABLE_MODULES[module_name].commands) @@
                ("dependencies" :> <<>>) @@ existing
        changed(module_name) ==
            IF module_name \notin DOMAIN old_info
            THEN TRUE
            ELSE \/ GetDiffers(old_info[module_name], "enabled", module_name \in enabled_modules)
                 \/ GetDiffers(old_info[module_name], "description", AVAILABLE_MODULES[module_name].description)
                 \/ GetDiffers(old_info[module_name], "commands", AVAILABLE_MODULES[module_name].commands)
                 \/ GetDiffers(old_info[module_name], "dependencies", <<>>)
        new_info ==
            [module_name \in DOMAIN old_info \cup DOMAIN AVAILABLE_MODULES |->
                IF module_name \notin DOMAIN AVAILABLE_MODULES THEN old_info[module_name]
                ELSE IF module_name \notin DOMAIN old_info THEN fresh(module_name)
                ELSE repaired(module_name)]
    IN  [config |-> ("module_info" :> new_info) @@ config,
         modified |-> (~had_info) \/ (\E module_name \in DOMAIN AVAILABLE_MODULES : changed(module_name))]

\* update_module_info_if_needed(config): the config afterwards and the returned flag
update_module_info_if_needed(config) ==
    LET had_info == "module_info" \in DOMAIN config
        old_info == IF had_info THEN config["module_info"] ELSE <<>>
        enabled_modules ==
            IF "enabled_modules" \in DOMAIN config THEN Range(config["enabled_modules"]) ELSE {}
        fresh(module_name) ==
            [enabled |-> module_name \in enabled_modules,
             description |-> AVAILABLE_MODULES[module_name].description,
             commands |-> AVAILABLE_MODULES[module_name].commands,
             dependencies |-> <<>>]
        repaired(module_name) ==
            LET existing == old_info[module_name]
            IN  ("enabled" :> (module_name \in enabled_modules)) @@
                ("description" :> AVAILABLE_MODULES[module_name].description) @@
                ("commands" :> AVAILABLE_MODULES[module_name].commands) @@
                (IF "dependencies" \in DOMAIN existing THEN existing ELSE ("dependencies" :> <<>>) @@ existing)
        changed(module_name) ==
            IF module_name \notin DOMAIN old_info
            THEN TRUE
            ELSE \/ GetDiffers(old_info[module_name], "enabled", module_name \in enabled_modules)
                 \/ GetDiffers(old_info[module_name], "description", AVAILABLE_MODULES[module_name].description)
                 \/ GetDiffers(old_info[module_name], "commands", AVAILABLE_MODULES[module_name].commands)
                 \/ "dependencies" \notin DOMAIN old_info[module_name]
        new_info ==
            [module_name \in DOMAIN old_info \cup DOMAIN AVAILABLE_MODULES |->
                IF module_name \notin DOMAIN AVAILABLE_MODULES THEN old_info[module_name]
                ELSE IF module_name \notin DOMAIN old_info THEN fresh(module_name)
                ELSE repaired(module_name)]
    IN  [config |-> ("module_info" :> new_info) @@ config,
         modified |-> (~had_info) \/ (\E module_name \in DOMAIN AVAILABLE_MODULES : changed(module_name))]

(***************************************************************************)
(* load_modules_config                                                     *)
(***************************************************************************)
\* LegacyEnabled without the test against the registry
LegacyEnabled_AnyName(text) ==
    LET keys == [i \in 1..Len(text) |-> text[i][1]]
        config == ParseDict(text)
    IN  SelectSeq(keys, LAMBDA name : config[name] = TRUE)

\* the registered names a legacy file maps to true, in the order of the file's items
LegacyEnabled(text) ==
    LET keys == [i \in 1..Len(text) |-> text[i][1]]
        config == ParseDict(text)
    IN  SelectSeq(keys, LAMBDA name : name \in DOMAIN AVAILABLE_MODULES /\ config[name] = TRUE)

\* the top-level keys of a new-format config that are legacy boolean flags
\* (a top-level key that is a module name holds a boolean in every file considered)
LegacyFlags(config) ==
    {module_name \in DOMAIN config : module_name \in DOMAIN AVAILABLE_MODULES}

\* NeedsUpdate never asking for module_info to be built
NeedsUpdate_Never(config) == FALSE

\* NeedsUpdate repairing module_info on every load
NeedsUpdate_Always(config) == TRUE

\* needs_update: module_info is repaired only when it is missing altogether
NeedsUpdate(config) == "module_info" \notin DOMAIN config

\* create_default_config(): builds the config around the list object DEFAULT_ENABLED_MODULES
\* itself (the returned enabled_modules is that object, not a copy) and saves it
create_default_config(f, defaults, out) ==
    [raised |-> FALSE,
     config |-> create_config_with_modules(defaults),
     file |-> save_modules_config(create_config_with_modules(defaults), f, out),
     aliased |-> TRUE]

\* load_modules_config(): the returned config, the file afterwards, whether the call
\* raised, and whether the returned enabled_modules is the DEFAULT_ENABLED_MODULES object.
\* out is what the one save the call may make meets.
load_modules_config(f, defaults, out) ==
    CASE f.kind = "missing" -> create_default_config(f, defaults, out)
      [] f.kind = "malformed" -> create_default_config(f, defaults, out)
      [] f.kind = "undecodable" ->
            [raised |-> TRUE, config |-> <<>>, file |-> f, aliased |-> FALSE]
      [] f.kind = "json" ->
            LET config == JsonLoad(f.text) IN
            IF "enabled_modules" \notin DOMAIN config
            THEN [raised |-> FALSE,
                  config |-> create_config_with_modules(LegacyEnabled(f.text)),
                  file |-> f,
                  aliased |-> FALSE]
            ELSE LET legacy_flags_found == LegacyFlags(config) # {}
                     cleaned == [k \in DOMAIN config \ LegacyFlags(config) |-> config[k]]
                     needs_update == NeedsUpdate(cleaned)
                     updated == IF needs_update
                                THEN update_module_info_if_needed(cleaned)
                                ELSE [config |-> cleaned, modified |-> FALSE]
                 IN  [raised |-> FALSE,
                      config |-> updated.config,
                      file |-> IF legacy_flags_found \/ updated.modified
                               THEN save_modules_config(updated.config, f, out)
                               ELSE f,
                      aliased |-> FALSE]

(***************************************************************************)
(* enable_module / disable_module                                          *)
(***************************************************************************)
\* the keys of python_dependencies: the modules that need Python packages
python_dependencies == {"git_manager"}

\* check_and_install_python_dependencies reporting success whatever it finds
check_and_install_python_dependencies_Always(module_name, deps_ok) == TRUE

\* check_and_install_python_dependencies(module_name): only git_manager has Python
\* dependencies; deps_ok says whether they are importable or pip installs them
check_and_install_python_dependencies(module_name, deps_ok) ==
    IF module_name \notin python_dependencies THEN TRUE ELSE deps_ok

\* SetEnabledFlag with the flag update left out
SetEnabledFlag_Skip(config, module_name, value) == config

\* config["module_info"][module_name]["enabled"] = value, if that entry exists
SetEnabledFlag(config, module_name, value) ==
    IF "module_info" \in DOMAIN config /\ module_name \in DOMAIN config["module_info"]
    THEN [config EXCEPT !["module_info"][module_name] = ("enabled" :> value) @@ @]
    ELSE config

\* the outcome of a call that returns result and leaves f and defaults behind
Returned(result, f, defaults) ==
    [raised |-> FALSE, result |-> result, file |-> f, defaults |-> defaults]

\* the outcome of a call that an exception leaves
Raised(f, defaults) ==
    [raised |-> TRUE, result |-> FALSE, file |-> f, defaults |-> defaults]

\* EnableLoaded without the test for a module that is already enabled
EnableLoaded_NoMembershipTest(loaded, defaults, module_name, out2, deps_ok) ==
    IF loaded.raised THEN Raised(loaded.file, defaults)
    ELSE
    LET config == loaded.config
        enabled_modules == config["enabled_modules"]
    IN
    IF ~check_and_install_python_dependencies(module_name, deps_ok)
    THEN Returned(FALSE, loaded.file, defaults)
    ELSE
    LET appended == Append(enabled_modules, module_name)
        defaults2 == IF loaded.aliased THEN appended ELSE defaults
        config2 == SetEnabledFlag([config EXCEPT !["enabled_modules"] = appended],
                                  module_name, TRUE)
    IN  Returned(out2 = "ok", save_modules_config(config2, loaded.file, out2), defaults2)

\* EnableLoaded storing a list of the one module instead of appending to the list
EnableLoaded_ReplacesList(loaded, defaults, module_name, out2, deps_ok) ==
    IF loaded.raised THEN Raised(loaded.file, defaults)
    ELSE
    LET config == loaded.config
        enabled_modules == config["enabled_modules"]
    IN
    IF In(module_name, enabled_modules)
    THEN Returned(TRUE, loaded.file, defaults)
    ELSE IF ~check_and_install_python_dependencies(module_name, deps_ok)
    THEN Returned(FALSE, loaded.file, defaults)
    ELSE
    LET appended == <<module_name>>
        defaults2 == IF loaded.aliased THEN appended ELSE defaults
        config2 == SetEnabledFlag([config EXCEPT !["enabled_modules"] = appended],
                                  module_name, TRUE)
    IN  Returned(out2 = "ok", save_modules_config(config2, loaded.file, out2), defaults2)

\* the statements of enable_module from its load_modules_config() on; loaded is what
\* that call did, out2 is what the final save meets
EnableLoaded(loaded, defaults, module_name, out2, deps_ok) ==
    IF loaded.raised THEN Raised(loaded.file, defaults)
    ELSE
    LET config == loaded.config
        enabled_modules == config["enabled_modules"]
    IN
    IF In(module_name, enabled_modules)
    THEN Returned(TRUE, loaded.file, defaults)
    ELSE IF ~check_and_install_python_dependencies(module_name, deps_ok)
    THEN Returned(FALSE, loaded.file, defaults)
    ELSE
    LET appended == Append(enabled_modules, module_name)
        \* append() changes the list in place: when it is the DEFAULT_ENABLED_MODULES
        \* object, the module-level default changes with it
        defaults2 == IF loaded.aliased THEN appended ELSE defaults
        config2 == SetEnabledFlag([config EXCEPT !["enabled_modules"] = appended],
                                  module_name, TRUE)
    IN  Returned(out2 = "ok", save_modules_config(config2, loaded.file, out2), defaults2)

\* enable_module(module_name).  out1 is met by the save inside load_modules_config,
\* out2 by the final save.
enable_module(f, defaults, module_name, out1, out2, deps_ok) ==
    IF module_name \notin get_available_modules
    THEN Returned(FALSE, f, defaults)
    ELSE EnableLoaded(load_modules_config(f, defaults, out1),
                      defaults, module_name, out2, deps_ok)

\* the statements the legacy branch and the registered branch of disable_module
\* share, from load_modules_config() on: test membership, remove, flag, save
DisableLoaded(loaded, defaults, module_name, out2) ==
    IF loaded.raised THEN Raised(loaded.file, defaults)
    ELSE
    LET config == loaded.config
        enabled_modules == config["enabled_modules"]
    IN
    IF ~In(module_name, enabled_modules)
    THEN Returned(TRUE, loaded.file, defaults)
    ELSE
    LET removed == Remove(enabled_modules, module_name)
        \* remove() changes the list in place, as append() does in enable_module
        defaults2 == IF loaded.aliased THEN removed ELSE defaults
        config2 == SetEnabledFlag([config EXCEPT !["enabled_modules"] = removed],
                                  module_name, FALSE)
    IN  Returned(out2 = "ok", save_modules_config(config2, loaded.file, out2), defaults2)

\* disable_module without the test against the registry
disable_module_NoRegistryCheck(f, defaults, module_name, out1, out2) ==
    DisableLoaded(load_modules_config(f, defaults, out1), defaults, module_name, out2)

\* disable_module(module_name): the names of the consolidated SSH modules are handled
\* before the registry is consulted; every other name must be registered
disable_module(f, defaults, module_name, out1, out2) ==
    IF module_name \notin LegacySshModules /\ module_name \notin get_available_modules
    THEN Returned(FALSE, f, defaults)
    ELSE DisableLoaded(load_modules_config(f, defaults, out1), defaults, module_name, out2)

(***************************************************************************)
(* load_and_register_modules                                               *)
(***************************************************************************)
\* what importing and registering one handler unit meets
LoadOutcomes == {"ok", "import_raises", "register_raises"}

\* what loading module_name meets in env (a module env does not name loads without error)
Meets(env, module_name) == IF module_name \in DOMAIN env THEN env[module_name] ELSE "ok"

\* importlib.import_module(f"maxcli.modules.{module_name}") raises: there is no such
\* handler unit, or the environment makes its import fail
ImportRaises(module_name, env) ==
    module_name \notin get_available_modules \/ Meets(env, module_name) = "import_raises"

\* RegisterLoop leaving the loop at the first import that raises
RECURSIVE RegisterLoop_Abort(_, _, _)
RegisterLoop_Abort(enabled_modules, env, acc) ==
    IF enabled_modules = <<>>
    THEN acc
    ELSE
    LET module_name == Head(enabled_modules)
        rest == Tail(enabled_modules)
    IN  IF module_name \in LegacySshModules
        THEN RegisterLoop_Abort(rest, env, acc)
        ELSE IF ImportRaises(module_name, env)
        THEN [acc EXCEPT !.imported = Append(@, module_name),
                         !.warned = Append(@, module_name)]
        ELSE IF Meets(env, module_name) = "register_raises"
        THEN RegisterLoop_Abort(rest, env,
                [acc EXCEPT !.imported = Append(@, module_name),
                            !.registered = Append(@, module_name),
                            !.warned = Append(@, module_name)])
        ELSE RegisterLoop_Abort(rest, env,
                [acc EXCEPT !.imported = Append(@, module_name),
                            !.registered = Append(@, module_name)])

\* the loop over enabled_modules: the modules whose import was attempted, the modules
\* whose register_commands was called and the modules a warning was printed for, in
\* order.  Every handler unit of the registry defines register_commands, so
\* hasattr(module, 'register_commands') holds.  A register_commands that raises
\* (register_raises) has been called; the exception is caught like an import's.
RECURSIVE RegisterLoop(_, _, _)
RegisterLoop(enabled_modules, env, acc) ==
    IF enabled_modules = <<>>
    THEN acc
    ELSE
    LET module_name == Head(enabled_modules)
        rest == Tail(enabled_modules)
    IN  IF module_name \in LegacySshModules
        THEN RegisterLoop(rest, env, acc)
        ELSE IF ImportRaises(module_name, env)
        THEN RegisterLoop(rest, env,
                [acc EXCEPT !.imported = Append(@, module_name),
                            !.warned = Append(@, module_name)])
        ELSE IF Meets(env, module_name) = "register_raises"
        THEN RegisterLoop(rest, env,
                [acc EXCEPT !.imported = Append(@, module_name),
                            !.registered = Append(@, module_name),
                            !.warned = Append(@, module_name)])
        ELSE RegisterLoop(rest, env,
                [acc EXCEPT !.imported = Append(@, module_name),
                            !.registered = Append(@, module_name)])

\* nothing imported, registered or warned about
NothingLoaded == [imported |-> <<>>, registered |-> <<>>, warned |-> <<>>]

\* load_and_register_modules walking every module of module_info, enabled or not
load_and_register_modules_AllKnown(f, defaults, out, env) ==
    LET loaded == load_modules_config(f, defaults, out) IN
    IF loaded.raised
    THEN [raised |-> TRUE, file |-> loaded.file, done |-> NothingLoaded]
    ELSE
    LET enabled_modules == SortedKeys(loaded.config["module_info"])
    IN  [raised |-> FALSE, file |-> loaded.file,
         done |-> IF enabled_modules = <<>>
                  THEN NothingLoaded
                  ELSE RegisterLoop(enabled_modules, env, NothingLoaded)]

\* load_and_register_modules(subparsers): what the loop did, the file afterwards,
\* whether the call raised
load_and_register_modules(f, defaults, out, env) ==
    LET loaded == load_modules_config(f, defaults, out) IN
    IF loaded.raised
    THEN [raised |-> TRUE, file |-> loaded.file, done |-> NothingLoaded]
    ELSE
    LET enabled_modules == loaded.config["enabled_modules"]
    IN  [raised |-> FALSE, file |-> loaded.file,
         done |-> IF enabled_modules = <<>>
                  THEN NothingLoaded
                  ELSE RegisterLoop(enabled_modules, env, NothingLoaded)]

(***************************************************************************)
(* SSH target profiles (ssh_manager.py).  A str is a sequence of           *)
(* one-character strings, so that str.strip() is computed; a path is a     *)
(* string.  The dict of targets is the sequence of its <<name, profile>>   *)
(* items in insertion order, which is also the order json.dump writes.     *)
(***************************************************************************)
\* the characters str.strip() removes
Whitespace == {" "}

\* str.strip()
RECURSIVE Strip(_)
Strip(str) ==
    IF str = <<>> THEN str
    ELSE IF Head(str) \in Whitespace THEN Strip(Tail(str))
    ELSE IF str[Len(str)] \in Whitespace THEN Strip(SubSeq(str, 1, Len(str) - 1))
    ELSE str

\* Path(key).expanduser(), as a string, over the key paths considered
Expanduser(key) ==
    CASE key = "~/.ssh/id_rsa" -> "/home/max/.ssh/id_rsa"
      [] OTHER -> key

\* what a path is on disk when it is looked at
PathKinds == {"file", "dir", "missing"}

\* SSH_TARGETS_FILE does not exist
NoTargetsFile == [kind |-> "missing", text |-> <<>>, mode |-> "none"]

\* SSH_TARGETS_FILE holds the JSON object text with permission mode mode
TargetsFile(text, mode) == [kind |-> "json", text |-> text, mode |-> mode]

\* name in targets
HasTarget(items, name) == \E i \in 1..Len(items) : items[i][1] = name

\* targets[name], for a name in targets
TargetOf(items, name) == (CHOOSE i \in 1..Len(items) : items[i][1] = name)

\* json.load of an object: a key that stands twice in the text keeps the place of its
\* first occurrence and the value of its last
RECURSIVE ParseTargets(_, _)
ParseTargets(text, acc) ==
    IF text = <<>> THEN acc
    ELSE LET item == Head(text) IN
         IF HasTarget(acc, item[1])
         THEN ParseTargets(Tail(text), [acc EXCEPT ![TargetOf(acc, item[1])] = item])
         ELSE ParseTargets(Tail(text), Append(acc, item))

\* load_ssh_targets(): the dict returned, and whether the call raised.  A missing file
\* and a file that is not JSON give {}; a file that is not UTF-8 raises
\* UnicodeDecodeError, which the except clause does not name.
load_ssh_targets(f) ==
    CASE f.kind = "missing" -> [raised |-> FALSE, targets |-> <<>>]
      [] f.kind = "malformed" -> [raised |-> FALSE, targets |-> <<>>]
      [] f.kind = "undecodable" -> [raised |-> TRUE, targets |-> <<>>]
      [] f.kind = "json" -> [raised |-> FALSE, targets |-> ParseTargets(f.text, <<>>)]

\* save_ssh_targets(targets): the file afterwards; the call returns (out = "ok").
\* open(..., 'w') creates a missing file with the mode the umask leaves (644) and
\* keeps the mode of an existing one; os.chmod then sets 600.
save_ssh_targets(items, f, out) ==
    CASE out = "ok" -> TargetsFile(items, "600")
      [] out = "denied" -> f

\* validate_ssh_target without the test of the port
validate_ssh_target_NoPortCheck(user, host, port, key, key_kind) ==
    IF Strip(user) = <<>> THEN FALSE
    ELSE IF Strip(host) = <<>> THEN FALSE
    ELSE IF key_kind = "missing" THEN FALSE
    ELSE IF key_kind # "file" THEN FALSE
    ELSE TRUE

\* validate_ssh_target(user, host, port, key): key_kind is what the expanded key path
\* is on disk
validate_ssh_target(user, host, port, key, key_kind) ==
    IF Strip(user) = <<>> THEN FALSE
    ELSE IF Strip(host) = <<>> THEN FALSE
    ELSE IF ~(1 <= port /\ port <= 65535) THEN FALSE
    ELSE IF key_kind = "missing" THEN FALSE
    ELSE IF key_kind # "file" THEN FALSE
    ELSE TRUE

\* the outcome of a call on the targets file
TargetsReturned(result, f) == [raised |-> FALSE, result |-> result, file |-> f]

\* add_target without the test for a name that is already stored
add_target_Replaces(f, name, user, host, port, key, key_kind, out) ==
    IF ~validate_ssh_target(user, host, port, key, key_kind)
    THEN TargetsReturned(FALSE, f)
    ELSE
    LET loaded == load_ssh_targets(f)
        profile == [user |-> Strip(user), host |-> Strip(host), port |-> port,
                    key |-> Expanduser(key)]
        stored == IF HasTarget(loaded.targets, name)
                  THEN [loaded.targets EXCEPT ![TargetOf(loaded.targets, name)] = <<name, profile>>]
                  ELSE Append(loaded.targets, <<name, profile>>)
    IN  IF loaded.raised THEN [raised |-> TRUE, result |-> FALSE, file |-> f]
        ELSE TargetsReturned(out = "ok", save_ssh_targets(stored, f, out))

\* add_target(name, user, host, port, key)
add_target(f, name, user, host, port, key, key_kind, out) ==
    IF ~validate_ssh_target(user, host, port, key, key_kind)
    THEN TargetsReturned(FALSE, f)
    ELSE
    LET loaded == load_ssh_targets(f)
        profile == [user |-> Strip(user), host |-> Strip(host), port |-> port,
                    key |-> Expanduser(key)]
    IN  IF loaded.raised THEN [raised |-> TRUE, result |-> FALSE, file |-> f]
        ELSE IF HasTarget(loaded.targets, name) THEN TargetsReturned(FALSE, f)
        ELSE TargetsReturned(out = "ok",
                             save_ssh_targets(Append(loaded.targets, <<name, profile>>), f, out))

\* remove_target(name)
remove_target(f, name, out) ==
    LET loaded == load_ssh_targets(f) IN
    IF loaded.raised THEN [raised |-> TRUE, result |-> FALSE, file |-> f]
    ELSE IF ~HasTarget(loaded.targets, name) THEN TargetsReturned(FALSE, f)
    ELSE TargetsReturned(out = "ok",
            save_ssh_targets(SelectSeq(loaded.targets, LAMBDA item : item[1] # name), f, out))

(***************************************************************************)
(* The module manager as a state machine: one process calling its          *)
(* functions, one call per step, over the file on disk                     *)
(***************************************************************************)
\* no call made yet
NoCall ==
    [op |-> "none", arg |-> "", result |-> FALSE, raised |-> FALSE,
     config |-> <<>>, done |-> NothingLoaded]

\* the docker command is not part of this machine
DockerIdle == [pc |-> "idle", extensive |-> FALSE, minimal |-> FALSE,
               env |-> <<>>, calls |-> <<>>, exit_code |-> 0, raised |-> FALSE]

\* no command line invocation made yet
NoInvocation == [command |-> "none", argv |-> <<>>, returned |-> <<>>,
                 raised |-> FALSE, exit_code |-> 0]

\* no concurrent invocations running
NoProcs == <<>>

\* no export or import under way
NoHome == <<>>

\* no config restore under way
NoRestore == <<>>

\* no git sync under way
GitIdle == <<>>

\* config.json is not part of this machine
NoPersonal == <<>>

\* config restore, git sync and config.json are not part of this machine
Elsewhere ==
    /\ confdir = NoRestore
    /\ git = GitIdle
    /\ personal = NoPersonal

\* the SSH commands are not part of this machine
SshIdle ==
    /\ targets = NoTargetsFile
    /\ cli = NoInvocation
    /\ procs = NoProcs
    /\ home = NoHome

\* the config conftest.py installs: what a run of the tool has written
SampleConfig == create_config_with_modules(<<"ssh_manager", "docker_manager">>)

\* files the tool meets on disk: none, a damaged one, the legacy boolean format, the
\* new format before module_info existed (with a consolidated SSH module enabled),
\* a new-format file still carrying a legacy flag, and a file written by the tool
InitFiles ==
    {MissingFile, MalformedFile, UndecodableFile,
     JsonFile(<<<<"ssh_manager", TRUE>>, <<"docker_manager", FALSE>>, <<"kubernetes_manager", TRUE>>>>),
     JsonFile(<<<<"enabled_modules", <<"ssh_manager", "ssh_backup">>>>>>),
     JsonFile(JsonDump(("docker_manager" :> TRUE) @@ SampleConfig)),
     JsonFile(JsonDump(SampleConfig))}

Init ==
    /\ Elsewhere
    /\ file \in InitFiles
    /\ DEFAULT_ENABLED_MODULES = DefaultEnabledAtImport
    /\ ops = 0
    /\ ret = NoCall
    /\ docker = DockerIdle
    /\ SshIdle

\* the environments of one load_and_register_modules over a list: every way the
\* registered modules in it can succeed, fail at import or fail in register_commands
LoaderEnvs(enabled_modules) ==
    [Range(enabled_modules) \cap get_available_modules -> LoadOutcomes]

\* what a load_modules_config() made over file f with defaults d returns (the config
\* does not depend on what its save meets)
LoadOf(f, d) == load_modules_config(f, d, "ok")

\* what the next load_modules_config() returns
NextLoad == LoadOf(file, DEFAULT_ENABLED_MODULES)

\* the outcomes the save inside the next load_modules_config can meet: it matters
\* only when that load saves
LoadSaveOutcomes ==
    IF NextLoad.file # file
    THEN SaveOutcomes
    ELSE {"ok"}

EnableModule ==
    /\ ops < MaxOps
    /\ \E module_name \in ModuleNames, out1 \in LoadSaveOutcomes, out2 \in SaveOutcomes :
       \E deps_ok \in (IF module_name = "git_manager" THEN BOOLEAN ELSE {TRUE}) :
       \E r \in {enable_module(file, DEFAULT_ENABLED_MODULES, module_name, out1, out2, deps_ok)} :
            /\ file' = r.file
            /\ DEFAULT_ENABLED_MODULES' = r.defaults
            /\ ret' = [NoCall EXCEPT !.op = "enable_module", !.arg = module_name,
                                     !.result = r.result, !.raised = r.raised]
    /\ ops' = ops + 1
    /\ UNCHANGED <<docker, targets, cli, procs, home, confdir, git, personal>>

DisableModule ==
    /\ ops < MaxOps
    /\ \E module_name \in ModuleNames, out1 \in LoadSaveOutcomes, out2 \in SaveOutcomes :
       \E r \in {disable_module(file, DEFAULT_ENABLED_MODULES, module_name, out1, out2)} :
            /\ file' = r.file
            /\ DEFAULT_ENABLED_MODULES' = r.defaults
            /\ ret' = [NoCall EXCEPT !.op = "disable_module", !.arg = module_name,
                                     !.result = r.result, !.raised = r.raised]
    /\ ops' = ops + 1
    /\ UNCHANGED <<docker, targets, cli, procs, home, confdir, git, personal>>

LoadModulesConfig ==
    /\ \E out \in LoadSaveOutcomes :
       \E r \in {load_modules_config(file, DEFAULT_ENABLED_MODULES, out)} :
            /\ file' = r.file
            /\ ret' = [NoCall EXCEPT !.op = "load_modules_config",
                                     !.raised = r.raised, !.config = r.config]
    /\ UNCHANGED <<DEFAULT_ENABLED_MODULES, ops, docker, targets, cli, procs, home, confdir, git, personal>>

\* called once, when the process starts
LoadAndRegisterModules ==
    /\ ret.op = "none"
    /\ \E out \in LoadSaveOutcomes :
       \E env \in (IF NextLoad.raised THEN {<<>>}
                   ELSE LoaderEnvs(NextLoad.config["enabled_modules"])) :
       \E r \in {load_and_register_modules(file, DEFAULT_ENABLED_MODULES, out, env)} :
            /\ file' = r.file
            /\ ret' = [NoCall EXCEPT !.op = "load_and_register_modules", !.arg = env,
                                     !.raised = r.raised, !.done = r.done]
    /\ UNCHANGED <<DEFAULT_ENABLED_MODULES, ops, docker, targets, cli, procs, home, confdir, git, personal>>

Next ==
    \/ EnableModule
    \/ DisableModule
    \/ LoadModulesConfig

Spec == Init /\ [][Next]_vars

(***************************************************************************)
(* Start-up: load_and_register_modules over the files the tool can have    *)
(* written                                                                 *)
(***************************************************************************)
\* duplicate-free lists of registered and consolidated module names
RECURSIVE EnabledLists(_)
EnabledLists(n) ==
    IF n = 0 THEN {<<>>}
    ELSE EnabledLists(n-1) \cup
         {Append(l, m) : <<l, m>> \in
            {p \in EnabledLists(n-1) \X (get_available_modules \cup LegacySshModules) :
                Len(p[1]) = n-1 /\ ~In(p[2], p[1])}}

InitLoader ==
    /\ Elsewhere
    /\ file \in InitFiles \cup
                {JsonFile(JsonDump(create_config_with_modules(l))) : l \in EnabledLists(MaxEnabled)}
    /\ DEFAULT_ENABLED_MODULES = DefaultEnabledAtImport
    /\ ops = 0
    /\ ret = NoCall
    /\ docker = DockerIdle
    /\ SshIdle

NextLoader == LoadAndRegisterModules

SpecLoader == InitLoader /\ [][NextLoader]_vars

(***************************************************************************)
(* The SSH target profiles as a state machine: one process calling         *)
(* add_target and remove_target, one call per step                         *)
(***************************************************************************)
\* the names, users, hosts, ports and key paths calls are made with
TargetNames == {"web", "db"}
Users == {<<>>, <<" ", "u", " ">>}
Hosts == {<<" ">>, <<"h">>}
Ports == {0, 1, 65535, 65536}
KeyPaths == {"~/.ssh/id_rsa", "/keys/deploy"}

\* a profile as add_target stores it
WebProfile == [user |-> <<"u">>, host |-> <<"h">>, port |-> 1, key |-> "/home/max/.ssh/id_rsa"]

\* the targets files met on disk: none, a damaged one, one that is not UTF-8, one the
\* tool wrote, and one a restore or an editor left with mode 644
InitTargets ==
    {NoTargetsFile,
     [kind |-> "malformed", text |-> <<>>, mode |-> "644"],
     [kind |-> "undecodable", text |-> <<>>, mode |-> "644"],
     TargetsFile(<< <<"web", WebProfile>> >>, "600"),
     TargetsFile(<< <<"web", WebProfile>> >>, "644")}

InitSshTargets ==
    /\ Elsewhere
    /\ file = MissingFile
    /\ DEFAULT_ENABLED_MODULES = DefaultEnabledAtImport
    /\ ops = 0
    /\ ret = NoCall
    /\ docker = DockerIdle
    /\ targets \in InitTargets
    /\ cli = NoInvocation
    /\ procs = NoProcs
    /\ home = NoHome

\* the arguments add_target is called with: every valid combination, and a valid one
\* spoilt in one argument at a time or in all of them
ValidArgs ==
    [user : {<<" ", "u", " ">>}, host : {<<"h">>}, port : {1, 65535},
     key : KeyPaths, key_kind : {"file"}]

BaseArgs == [user |-> <<" ", "u", " ">>, host |-> <<"h">>, port |-> 65535,
             key |-> "/keys/deploy", key_kind |-> "file"]

AddArgs ==
    ValidArgs \cup
    {[BaseArgs EXCEPT !.user = user] : user \in Users} \cup
    {[BaseArgs EXCEPT !.host = host] : host \in Hosts} \cup
    {[BaseArgs EXCEPT !.port = port] : port \in Ports} \cup
    {[BaseArgs EXCEPT !.key_kind = key_kind] : key_kind \in PathKinds} \cup
    {[user |-> <<>>, host |-> <<" ">>, port |-> 0, key |-> "~/.ssh/id_rsa", key_kind |-> "missing"]}

AddTarget ==
    /\ \E name \in TargetNames, args \in AddArgs, out \in SaveOutcomes :
       \E r \in {add_target(targets, name, args.user, args.host, args.port,
                            args.key, args.key_kind, out)} :
            /\ targets' = r.file
            /\ ret' = [NoCall EXCEPT !.op = "add_target",
                                     !.arg = [name |-> name, user |-> args.user,
                                              host |-> args.host, port |-> args.port,
                                              key |-> args.key, key_kind |-> args.key_kind],
                                     !.result = r.result, !.raised = r.raised]
    /\ UNCHANGED <<file, DEFAULT_ENABLED_MODULES, ops, docker, cli, procs, home, confdir, git, personal>>

RemoveTarget ==
    /\ \E name \in TargetNames, out \in SaveOutcomes :
       \E r \in {remove_target(targets, name, out)} :
            /\ targets' = r.file
            /\ ret' = [NoCall EXCEPT !.op = "remove_target", !.arg = [name |-> name],
                                     !.result = r.result, !.raised = r.raised]
    /\ UNCHANGED <<file, DEFAULT_ENABLED_MODULES, ops, docker, cli, procs, home, confdir, git, personal>>

NextSshTargets == AddTarget \/ RemoveTarget

SpecSshTargets == InitSshTargets /\ [][NextSshTargets]_vars

(***************************************************************************)
(* One invocation of the command line: main() parses the arguments, calls  *)
(* the handler of the command, and the process exits                       *)
(***************************************************************************)
\* what stands after -p / --port on the command line ("" when the option is not given)
PortArgs == {"", "-1", "0", "22", "65536", "abc"}

\* argparse's type=int, default=22 for --port: the int, or a usage error
ArgparsePort(arg) ==
    CASE arg = ""      -> [error |-> FALSE, value |-> 22]
      [] arg = "-1"    -> [error |-> FALSE, value |-> -1]
      [] arg = "0"     -> [error |-> FALSE, value |-> 0]
      [] arg = "22"    -> [error |-> FALSE, value |-> 22]
      [] arg = "65536" -> [error |-> FALSE, value |-> 65536]
      [] OTHER         -> [error |-> TRUE, value |-> 0]

\* getattr(args, 'port', 22) or 22
HandlerPort(port) == IF port = 0 THEN 22 ELSE port

\* the exit status of the process: 2 when argparse rejects the arguments, 1 when the
\* handler leaves through an exception, 0 when the handler returns
ExitCode(usage_error, raised) ==
    IF usage_error THEN 2 ELSE IF raised THEN 1 ELSE 0

\* the loop of handle_disable_module over module_names: the results of the calls made,
\* the file and the default list afterwards.  out is what every save of the
\* invocation meets.
RECURSIVE DisableEach(_, _, _, _, _)
DisableEach(module_names, f, defaults, out, returned) ==
    IF module_names = <<>>
    THEN [raised |-> FALSE, returned |-> returned, file |-> f]
    ELSE LET r == disable_module(f, defaults, Head(module_names), out, out)
         IN  IF r.raised
             THEN [raised |-> TRUE, returned |-> returned, file |-> r.file]
             ELSE DisableEach(Tail(module_names), r.file, r.defaults, out,
                              Append(returned, r.result))

\* the argument lists of modules disable: one name or two, over the names considered
DisableArgs == {<<m>> : m \in ModuleNames} \cup {<<m, n>> : m, n \in ModuleNames}

\* the disk an invocation starts on
InitCli ==
    /\ Elsewhere
    /\ file \in InitFiles
    /\ DEFAULT_ENABLED_MODULES = DefaultEnabledAtImport
    /\ ops = 0
    /\ ret = NoCall
    /\ docker = DockerIdle
    /\ targets \in InitTargets
    /\ cli = NoInvocation
    /\ procs = NoProcs
    /\ home = NoHome

\* max modules enable <module_name>
CliModulesEnable ==
    /\ cli.command = "none"
    /\ \E module_name \in ModuleNames, out \in SaveOutcomes :
       \E deps_ok \in (IF module_name = "git_manager" THEN BOOLEAN ELSE {TRUE}) :
       \E r \in {enable_module(file, DEFAULT_ENABLED_MODULES, module_name, out, out, deps_ok)} :
            /\ file' = r.file
            /\ cli' = [command |-> "modules enable", argv |-> <<module_name>>,
                       returned |-> IF r.raised THEN <<>> ELSE <<r.result>>,
                       raised |-> r.raised, exit_code |-> ExitCode(FALSE, r.raised)]
    /\ UNCHANGED <<DEFAULT_ENABLED_MODULES, ops, ret, docker, targets, procs, home, confdir, git, personal>>

\* max modules disable <module_names>...
CliModulesDisable ==
    /\ cli.command = "none"
    /\ \E module_names \in DisableArgs, out \in SaveOutcomes :
       \E r \in {DisableEach(module_names, file, DEFAULT_ENABLED_MODULES, out, <<>>)} :
            /\ file' = r.file
            /\ cli' = [command |-> "modules disable", argv |-> module_names,
                       returned |-> r.returned,
                       raised |-> r.raised, exit_code |-> ExitCode(FALSE, r.raised)]
    /\ UNCHANGED <<DEFAULT_ENABLED_MODULES, ops, ret, docker, targets, procs, home, confdir, git, personal>>

\* max ssh add-target <name> <user> <host> [-p PORT] [-k KEY]
CliAddTarget ==
    /\ cli.command = "none"
    /\ \E name \in TargetNames, user \in Users, host \in Hosts, port_arg \in PortArgs,
          key \in KeyPaths, key_kind \in PathKinds, out \in SaveOutcomes :
       LET parsed == ArgparsePort(port_arg)
           argv == [name |-> name, user |-> user, host |-> host, port |-> port_arg,
                    key |-> key, key_kind |-> key_kind]
       IN  IF parsed.error
           THEN /\ targets' = targets
                /\ cli' = [command |-> "ssh add-target", argv |-> argv, returned |-> <<>>,
                           raised |-> FALSE, exit_code |-> ExitCode(TRUE, FALSE)]
           ELSE \E r \in {add_target(targets, name, user, host, HandlerPort(parsed.value),
                                     key, key_kind, out)} :
                /\ targets' = r.file
                /\ cli' = [command |-> "ssh add-target", argv |-> argv,
                           returned |-> IF r.raised THEN <<>> ELSE <<r.result>>,
                           raised |-> r.raised, exit_code |-> ExitCode(FALSE, r.raised)]
    /\ UNCHANGED <<file, DEFAULT_ENABLED_MODULES, ops, ret, docker, procs, home, confdir, git, personal>>

\* max ssh remove-target <name>
CliRemoveTarget ==
    /\ cli.command = "none"
    /\ \E name \in TargetNames, out \in SaveOutcomes :
       \E r \in {remove_target(targets, name, out)} :
            /\ targets' = r.file
            /\ cli' = [command |-> "ssh remove-target", argv |-> [name |-> name],
                       returned |-> IF r.raised THEN <<>> ELSE <<r.result>>,
                       raised |-> r.raised, exit_code |-> ExitCode(FALSE, r.raised)]
    /\ UNCHANGED <<file, DEFAULT_ENABLED_MODULES, ops, ret, docker, procs, home, confdir, git, personal>>

NextCli == CliModulesEnable \/ CliModulesDisable \/ CliAddTarget \/ CliRemoveTarget

SpecCli == InitCli /\ [][NextCli]_vars

(***************************************************************************)
(* Two invocations of modules enable / modules disable running at the same *)
(* time.  Each is its own process: it reads modules_config.json inside     *)
(* load_modules_config, changes its copy, and writes the file inside       *)
(* save_modules_config; nothing holds a lock between the two.              *)
(***************************************************************************)
Procs == {1, 2}

\* an invocation that has not started: its command and argument, what it has loaded,
\* which invocations had finished when it loaded and when it finished
ProcStart(op, module_name) ==
    [pc |-> "start", op |-> op, module_name |-> module_name,
     loaded |-> <<>>, result |-> FALSE, raised |-> FALSE,
     done_at_load |-> {}, done_at_finish |-> {}]

\* the invocations that have finished
Finished == {q \in Procs : procs[q].pc = "done"}

InitConcurrent ==
    /\ Elsewhere
    /\ file \in InitFiles
    /\ DEFAULT_ENABLED_MODULES = DefaultEnabledAtImport
    /\ ops = 0
    /\ ret = NoCall
    /\ docker = DockerIdle
    /\ targets = NoTargetsFile
    /\ cli = NoInvocation
    /\ procs \in [Procs -> {ProcStart(op, m) : op \in {"enable_module", "disable_module"},
                                               m \in ModuleNames}]
    /\ home = NoHome

\* the name is rejected before the file is read
RejectedBeforeLoad(op, module_name) ==
    IF op = "enable_module"
    THEN module_name \notin get_available_modules
    ELSE module_name \notin LegacySshModules /\ module_name \notin get_available_modules

\* the invocation runs up to the return of its load_modules_config()
ProcLoad(p) ==
    /\ procs[p].pc = "start"
    /\ IF RejectedBeforeLoad(procs[p].op, procs[p].module_name)
       THEN /\ procs' = [procs EXCEPT ![p].pc = "done", ![p].result = FALSE,
                                      ![p].done_at_load = Finished,
                                      ![p].done_at_finish = Finished]
            /\ file' = file
       ELSE \E out \in LoadSaveOutcomes :
            \E loaded \in {load_modules_config(file, DefaultEnabledAtImport, out)} :
                /\ file' = loaded.file
                /\ procs' = [procs EXCEPT ![p].pc = "loaded", ![p].loaded = loaded,
                                          ![p].done_at_load = Finished]
    /\ UNCHANGED <<DEFAULT_ENABLED_MODULES, ops, ret, docker, targets, cli, home, confdir, git, personal>>

\* ProcFinish changing and writing the file as it is at the time of the save, as if
\* the read and the write were one step
ProcFinish_RereadsFile(p) ==
    /\ procs[p].pc = "loaded"
    /\ \E out \in SaveOutcomes :
       \E deps_ok \in (IF procs[p].module_name = "git_manager" THEN BOOLEAN ELSE {TRUE}) :
       \E r \in {IF procs[p].op = "enable_module"
                 THEN EnableLoaded(load_modules_config(file, DefaultEnabledAtImport, "ok"),
                                   DefaultEnabledAtImport, procs[p].module_name, out, deps_ok)
                 ELSE DisableLoaded(load_modules_config(file, DefaultEnabledAtImport, "ok"),
                                    DefaultEnabledAtImport, procs[p].module_name, out)} :
            /\ file' = r.file
            /\ procs' = [procs EXCEPT ![p].pc = "done", ![p].result = r.result,
                                      ![p].raised = r.raised,
                                      ![p].done_at_finish = Finished]
    /\ UNCHANGED <<DEFAULT_ENABLED_MODULES, ops, ret, docker, targets, cli, home, confdir, git, personal>>

\* the invocation runs from there to its end: the save acts on the file as it is now
ProcFinish(p) ==
    /\ procs[p].pc = "loaded"
    /\ \E out \in SaveOutcomes :
       \E deps_ok \in (IF procs[p].module_name = "git_manager" THEN BOOLEAN ELSE {TRUE}) :
       \E r \in {IF procs[p].op = "enable_module"
                 THEN EnableLoaded([procs[p].loaded EXCEPT !.file = file],
                                   DefaultEnabledAtImport, procs[p].module_name, out, deps_ok)
                 ELSE DisableLoaded([procs[p].loaded EXCEPT !.file = file],
                                    DefaultEnabledAtImport, procs[p].module_name, out)} :
            /\ file' = r.file
            /\ procs' = [procs EXCEPT ![p].pc = "done", ![p].result = r.result,
                                      ![p].raised = r.raised,
                                      ![p].done_at_finish = Finished]
    /\ UNCHANGED <<DEFAULT_ENABLED_MODULES, ops, ret, docker, targets, cli, home, confdir, git, personal>>

NextConcurrent == \E p \in Procs : ProcLoad(p) \/ ProcFinish(p)

SpecConcurrent == InitConcurrent /\ [][NextConcurrent]_vars

(***************************************************************************)
(* SSH key backup (ssh_backup.py): export_ssh_keys.  A file is a record    *)
(* that says whether it exists; a tarball holds a sequence of members.     *)
(***************************************************************************)
\* the file names considered in ~/.ssh
KeyFiles == {"id_rsa", "id_rsa.pub"}

\* file_path.suffix == '.pub' / key_name.endswith('.pub')
IsPublic(name) == name = "id_rsa.pub"

\* private_key_path.with_suffix('.pub').name
PublicOf(name) == IF name = "id_rsa" THEN "id_rsa.pub" ELSE name

\* a path with nothing at it, and a file in ~/.ssh with its content and mode
NoKeyFile == [exists |-> FALSE, data |-> "none", mode |-> "none"]
KeyFile(data, mode) == [exists |-> TRUE, data |-> data, mode |-> mode]

\* a path with no tarball at it, and a tarball with its members; valid says whether
\* tarfile can open it
NoTarball == [exists |-> FALSE, valid |-> FALSE, members |-> <<>>]
Tarball(members) == [exists |-> TRUE, valid |-> TRUE, members |-> members]

\* tar.add(path, arcname=f"{dir}/{base}"): the member holds the file's data and mode
Member(dir, base, data, mode) == [dir |-> dir, base |-> base, data |-> data, mode |-> mode]

\* find_ssh_private_keys(): the files of ~/.ssh that are not .pub files and start
\* with a private key header, sorted
find_ssh_private_keys(ssh) ==
    SelectSeq(<<"id_rsa", "id_rsa.pub">>,
              LAMBDA name : ssh[name].exists /\ ~IsPublic(name) /\ ssh[name].data # "not_a_key")

\* the members create_backup_tarball adds, in order: each selected private key, its
\* public key if that exists, then ssh_targets.json if it exists
RECURSIVE KeyMembers(_, _)
KeyMembers(selected_keys, ssh) ==
    IF selected_keys = <<>> THEN <<>>
    ELSE LET name == Head(selected_keys)
             private == <<Member("ssh_keys", name, ssh[name].data, ssh[name].mode)>>
             public == IF ssh[PublicOf(name)].exists /\ PublicOf(name) # name
                       THEN <<Member("ssh_keys", PublicOf(name),
                                     ssh[PublicOf(name)].data, ssh[PublicOf(name)].mode)>>
                       ELSE <<>>
         IN  private \o public \o KeyMembers(Tail(selected_keys), ssh)

BackupMembers(selected_keys, ssh, targets_file) ==
    KeyMembers(selected_keys, ssh) \o
    (IF targets_file.kind # "missing"
     THEN <<Member("config", "ssh_targets.json",
                   [kind |-> targets_file.kind, text |-> targets_file.text], targets_file.mode)>>
     ELSE <<>>)

\* what create_backup_tarball meets: every file is added; tarfile.open fails (OSError,
\* no file is made); a tar.add fails (OSError) after the file was opened
TarOutcomes == {"ok", "open_fails", "add_fails"}

\* create_backup_tarball(selected_keys, backup_path): the result and the tarball left.
\* When the last tar.add fails the with block closes the file, which then holds the
\* members added before.
create_backup_tarball(members, out) ==
    CASE out = "ok" -> [result |-> TRUE, tarball |-> Tarball(members)]
      [] out = "open_fails" -> [result |-> FALSE, tarball |-> NoTarball]
      [] out = "add_fails" ->
            [result |-> FALSE, tarball |-> Tarball(SubSeq(members, 1, Len(members) - 1))]

\* what the gpg run of encrypt_backup_with_gpg meets: it writes the output and exits
\* 0; it exits non-zero; there is no gpg; the user interrupts it; it exits 0 and the
\* output is not there
GpgOutcomes == {"ok", "nonzero", "not_found", "cancelled", "ok_no_output"}

\* encrypt_backup_with_gpg(backup_path, encrypted_path): the result and the encrypted file
encrypt_backup_with_gpg(tarball, out) ==
    CASE out = "ok" -> [result |-> TRUE, encrypted |-> Tarball(tarball.members)]
      [] out = "ok_no_output" -> [result |-> TRUE, encrypted |-> NoTarball]
      [] OTHER -> [result |-> FALSE, encrypted |-> NoTarball]

\* the outcome of export_ssh_keys: the result, the unencrypted tarball and the
\* encrypted backup left in the home directory
Exported(result, tarball, encrypted) ==
    [result |-> result, tarball |-> tarball, encrypted |-> encrypted]

\* the statements of export_ssh_keys after create_backup_tarball returned created:
\* a failed creation returns at once; otherwise the tarball is encrypted and then
\* unlinked whatever the encryption gave; encrypted_path.stat() raises when the output
\* is not there, and the except clause unlinks both files
ExportAfterTarball(created, gpg) ==
    IF ~created.result
    THEN Exported(FALSE, created.tarball, NoTarball)
    ELSE LET encrypted == encrypt_backup_with_gpg(created.tarball, gpg)
         IN  IF ~encrypted.result THEN Exported(FALSE, NoTarball, encrypted.encrypted)
             ELSE IF ~encrypted.encrypted.exists THEN Exported(FALSE, NoTarball, NoTarball)
             ELSE Exported(TRUE, NoTarball, encrypted.encrypted)

\* export_ssh_keys(): selected is what interactive_key_selection returns
export_ssh_keys(h, targets_file, selected, tar, gpg) ==
    IF find_ssh_private_keys(h.ssh) = <<>>
    THEN Exported(FALSE, h.tarball, h.encrypted)
    ELSE IF selected = <<>>
    THEN Exported(FALSE, h.tarball, h.encrypted)
    ELSE ExportAfterTarball(
            create_backup_tarball(BackupMembers(selected, h.ssh, targets_file), tar), gpg)

(***************************************************************************)
(* SSH key backup (ssh_backup.py): import_ssh_keys                         *)
(***************************************************************************)
\* what the gpg run of decrypt_backup_with_gpg meets: it writes the output and exits
\* 0; it fails (non-zero exit, no gpg, interrupted) without output; it fails and
\* leaves output behind; it exits 0 and the output is not there
DecryptOutcomes == {"ok", "fails", "fails_leaves_output", "ok_no_output"}

\* decrypt_backup_with_gpg(encrypted_path, decrypted_path): the result and the file at
\* decrypted_path
decrypt_backup_with_gpg(encrypted, out) ==
    CASE out = "ok" -> [result |-> TRUE, decrypted |-> encrypted]
      [] out = "fails" -> [result |-> FALSE, decrypted |-> NoTarball]
      [] out = "ok_no_output" -> [result |-> TRUE, decrypted |-> NoTarball]
      [] out = "fails_leaves_output" ->
            [result |-> FALSE, decrypted |-> [exists |-> TRUE, valid |-> FALSE, members |-> <<>>]]

\* validate_backup_contents(backup_path)[0]: tarfile.open succeeds.  A file that is not
\* a tarball gives False; a file that is not there raises FileNotFoundError, which
\* import_ssh_keys catches and answers with False as well.
validate_backup_contents(decrypted) == decrypted.exists /\ decrypted.valid

\* detect_file_conflicts(backup_path): the names of members whose target exists
detect_file_conflicts(members, ssh, targets_file) ==
    {members[i].base : i \in
        {j \in 1..Len(members) :
            \/ members[j].dir = "ssh_keys" /\ ssh[members[j].base].exists
            \/ /\ members[j].dir = "config" /\ members[j].base = "ssh_targets.json"
               /\ targets_file.kind # "missing"}}

\* what is typed at "Select option (1-4)": a menu number, something else, or Ctrl-C
MenuAnswers == {"1", "2", "3", "4", "x", "interrupt"}

\* resolve_file_conflicts treating an answer it does not know as overwrite
resolve_file_conflicts_UnknownOverwrites(conflicts, answer) ==
    IF conflicts = {} THEN "overwrite"
    ELSE CASE answer = "2" -> "skip"
           [] answer = "3" -> "individual"
           [] answer = "4" -> "cancel"
           [] answer = "interrupt" -> "cancel"
           [] OTHER -> "overwrite"

\* resolve_file_conflicts(conflicts): 'overwrite', 'skip', 'individual', or None
\* (here "cancel") for option 4, for an answer that is not in choice_map and for
\* KeyboardInterrupt / EOFError
resolve_file_conflicts(conflicts, answer) ==
    IF conflicts = {} THEN "overwrite"
    ELSE CASE answer = "1" -> "overwrite"
           [] answer = "2" -> "skip"
           [] answer = "3" -> "individual"
           [] OTHER -> "cancel"

\* should_extract for a member named base; answers[base] is whether
\* handle_individual_conflict is answered y / yes
ShouldExtract(base, conflicts, conflict_resolution, answers) ==
    IF base \notin conflicts THEN TRUE
    ELSE IF conflict_resolution = "skip" THEN FALSE
    ELSE IF conflict_resolution = "individual" THEN answers[base]
    ELSE TRUE

\* the file of ~/.ssh that tar.extract and the os.chmod after it leave for a key member
ExtractedKey(member) ==
    KeyFile(member.data, IF IsPublic(member.base) THEN "644" ELSE "600")

\* the ssh_targets.json that tar.extract leaves: the member's data with the member's mode
ExtractedTargets(member) ==
    [kind |-> member.data.kind, text |-> member.data.text, mode |-> member.mode]

\* the loop of extract_backup_contents over tar.getmembers(); extract says whether
\* tar.extract works or raises OSError at its first call
RECURSIVE ExtractLoop(_, _, _, _, _, _)
ExtractLoop(members, conflicts, conflict_resolution, answers, extract, acc) ==
    IF members = <<>> THEN acc
    ELSE
    LET member == Head(members)
        rest == Tail(members)
        wanted == ShouldExtract(member.base, conflicts, conflict_resolution, answers)
    IN  IF member.dir = "ssh_keys"
        THEN IF ~wanted
             THEN ExtractLoop(rest, conflicts, conflict_resolution, answers, extract,
                              [acc EXCEPT !.skipped = Append(@, member.base)])
             ELSE IF extract = "fails" THEN [acc EXCEPT !.failed = TRUE]
             ELSE ExtractLoop(rest, conflicts, conflict_resolution, answers, extract,
                              [acc EXCEPT !.ssh[member.base] = ExtractedKey(member),
                                          !.extracted = Append(@, member.base)])
        ELSE IF member.dir = "config" /\ member.base = "ssh_targets.json"
        THEN IF ~wanted
             THEN ExtractLoop(rest, conflicts, conflict_resolution, answers, extract,
                              [acc EXCEPT !.skipped = Append(@, member.base)])
             ELSE IF extract = "fails" THEN [acc EXCEPT !.failed = TRUE]
             ELSE ExtractLoop(rest, conflicts, conflict_resolution, answers, extract,
                              [acc EXCEPT !.targets = ExtractedTargets(member),
                                          !.extracted = Append(@, member.base)])
        ELSE ExtractLoop(rest, conflicts, conflict_resolution, answers, extract, acc)

\* extract_backup_contents(backup_path): the result, ~/.ssh and ssh_targets.json
\* afterwards, the names extracted and skipped
extract_backup_contents(members, ssh, targets_file, env) ==
    LET conflicts == detect_file_conflicts(members, ssh, targets_file)
        conflict_resolution == resolve_file_conflicts(conflicts, env.menu)
        start == [ssh |-> ssh, targets |-> targets_file, extracted |-> <<>>,
                  skipped |-> <<>>, failed |-> FALSE]
    IN  IF conflict_resolution = "cancel"
        THEN [start EXCEPT !.failed = TRUE]
        ELSE ExtractLoop(members, conflicts, conflict_resolution, env.answers, env.extract, start)

\* the outcome of import_ssh_keys
Imported(result, done, decrypted) ==
    [result |-> result, ssh |-> done.ssh, targets |-> done.targets,
     extracted |-> done.extracted, skipped |-> done.skipped, decrypted |-> decrypted]

\* ImportDecrypted without the finally clause: the decrypted tarball is unlinked
\* only after a successful extraction
ImportDecrypted_NoFinally(decrypt, untouched, env) ==
    IF ~decrypt.result THEN Imported(FALSE, untouched, decrypt.decrypted)
    ELSE IF ~validate_backup_contents(decrypt.decrypted)
    THEN Imported(FALSE, untouched, decrypt.decrypted)
    ELSE IF env.confirm # "y" THEN Imported(FALSE, untouched, decrypt.decrypted)
    ELSE LET done == extract_backup_contents(decrypt.decrypted.members,
                                             untouched.ssh, untouched.targets, env)
         IN  IF done.failed \/ (done.extracted = <<>> /\ done.skipped = <<>>)
             THEN Imported(FALSE, done, decrypt.decrypted)
             ELSE Imported(TRUE, done, NoTarball)

\* the statements of import_ssh_keys after the decryption, with the finally clause
\* that unlinks the decrypted tarball if it exists
ImportDecrypted(decrypt, untouched, env) ==
    IF ~decrypt.result THEN Imported(FALSE, untouched, NoTarball)
    ELSE IF ~validate_backup_contents(decrypt.decrypted) THEN Imported(FALSE, untouched, NoTarball)
    ELSE IF env.confirm # "y" THEN Imported(FALSE, untouched, NoTarball)
    ELSE LET done == extract_backup_contents(decrypt.decrypted.members,
                                             untouched.ssh, untouched.targets, env)
         IN  IF done.failed \/ (done.extracted = <<>> /\ done.skipped = <<>>)
             THEN Imported(FALSE, done, NoTarball)
             ELSE Imported(TRUE, done, NoTarball)

\* the names of the backup file select_backup_file can return: the one export writes,
\* and custom paths with a .gpg suffix and with no suffix at all
BackupNames == {"ssh_keys_backup.tar.gz.gpg", "backup.gpg", "backup"}

\* Path.with_suffix(''): the name without its last suffix; a name that has no suffix
\* is returned as it is
WithSuffixRemoved(name) ==
    CASE name = "ssh_keys_backup.tar.gz.gpg" -> "ssh_keys_backup.tar.gz"
      [] name = "backup.gpg" -> "backup"
      [] name = "backup" -> "backup"

\* what a run of import_ssh_keys leaves: its outcome and the encrypted backup file
ImportRun(outcome, encrypted) == [outcome |-> outcome, encrypted |-> encrypted]

\* import_ssh_keys(): env.selected says whether select_backup_file returned a file,
\* env.name is the name of that file.  When decrypted_path is the path of the backup
\* file itself, "remove existing decrypted file" unlinks the backup, and gpg then
\* finds no input.
import_ssh_keys(h, targets_file, env) ==
    LET untouched == [ssh |-> h.ssh, targets |-> targets_file,
                      extracted |-> <<>>, skipped |-> <<>>, failed |-> FALSE]
        decrypted_path == WithSuffixRemoved(env.name)
    IN  IF ~env.selected THEN ImportRun(Imported(FALSE, untouched, h.decrypted), h.encrypted)
        ELSE IF ~h.encrypted.exists
        THEN ImportRun(Imported(FALSE, untouched, h.decrypted), h.encrypted)
        ELSE IF decrypted_path = env.name
        THEN ImportRun(Imported(FALSE, untouched, NoTarball), NoTarball)
        ELSE ImportRun(ImportDecrypted(decrypt_backup_with_gpg(h.encrypted, env.gpg),
                                       untouched, env),
                       h.encrypted)

(***************************************************************************)
(* One run of ssh export-keys or ssh import-keys: the run starts with what *)
(* is on disk and with what the user and the tools it calls will answer    *)
(***************************************************************************)
\* ~/.ssh at the start: empty, a private key alone, a private key with its public key
SshDirs ==
    {[name \in KeyFiles |-> NoKeyFile],
     [name \in KeyFiles |-> IF name = "id_rsa" THEN KeyFile("existing", "600") ELSE NoKeyFile],
     [name \in KeyFiles |-> KeyFile("existing", IF IsPublic(name) THEN "644" ELSE "600")]}

\* a profile other than the stored one, as a backup holds it
DbProfile == [user |-> <<"u">>, host |-> <<"h">>, port |-> 65535, key |-> "/keys/deploy"]

\* ssh_targets.json at the start of a run
BackupTargets ==
    {NoTargetsFile,
     TargetsFile(<< <<"web", WebProfile>> >>, "600"),
     TargetsFile(<< <<"web", WebProfile>> >>, "644")}

\* the encrypted backups an import is pointed at: none, one that does not decrypt to a
\* tarball, an empty tarball, and tarballs made by create_backup_tarball from a
\* ~/.ssh and an ssh_targets.json with mode 600 or 644
ImportBackups ==
    {NoTarball,
     [exists |-> TRUE, valid |-> FALSE, members |-> <<>>],
     Tarball(<<>>),
     Tarball(<<Member("ssh_keys", "id_rsa", "backup", "600"),
               Member("ssh_keys", "id_rsa.pub", "backup", "644"),
               Member("config", "ssh_targets.json",
                      [kind |-> "json", text |-> << <<"db", DbProfile>> >>], "600")>>),
     Tarball(<<Member("ssh_keys", "id_rsa", "backup", "600"),
               Member("config", "ssh_targets.json",
                      [kind |-> "json", text |-> << <<"db", DbProfile>> >>], "644")>>)}

\* a file left behind by an earlier run
StaleTarball == Tarball(<<Member("ssh_keys", "id_rsa", "stale", "600")>>)

\* the answers to handle_individual_conflict: no to all, yes to all, yes to id_rsa only
IndividualAnswers ==
    {[name \in KeyFiles \cup {"ssh_targets.json"} |-> FALSE],
     [name \in KeyFiles \cup {"ssh_targets.json"} |-> TRUE],
     [name \in KeyFiles \cup {"ssh_targets.json"} |-> name = "id_rsa"]}

\* what an export meets: the keys selected among those found, the tarball creation, gpg
ExportEnvs(ssh) ==
    [selected : {<<>>, find_ssh_private_keys(ssh)}, tar : TarOutcomes, gpg : GpgOutcomes]

\* what an import meets: whether a backup file is selected and its name, gpg, the answer to
\* "Proceed with extraction?", the conflict menu, the individual answers, tar.extract
ImportEnvs ==
    [selected : BOOLEAN, name : BackupNames, gpg : DecryptOutcomes,
     confirm : {"y", "n", "interrupt"},
     menu : MenuAnswers, answers : IndividualAnswers, extract : {"ok", "fails"}]

InitBackup ==
    /\ Elsewhere
    /\ file = MissingFile
    /\ DEFAULT_ENABLED_MODULES = DefaultEnabledAtImport
    /\ ops = 0
    /\ ret = NoCall
    /\ docker = DockerIdle
    /\ targets \in BackupTargets
    /\ cli = NoInvocation
    /\ procs = NoProcs
    /\ \E ssh \in SshDirs :
        \/ \E env \in ExportEnvs(ssh), tarball \in {NoTarball, StaleTarball},
              encrypted \in {NoTarball, StaleTarball} :
            home = [pc |-> "start", op |-> "export", ssh |-> ssh, tarball |-> tarball,
                    encrypted |-> encrypted, decrypted |-> NoTarball, env |-> env,
                    result |-> FALSE, extracted |-> <<>>, skipped |-> <<>>]
        \/ \E env \in ImportEnvs, encrypted \in ImportBackups,
              decrypted \in {NoTarball, StaleTarball} :
            \* a file left at decrypted_path is a file other than the backup
            /\ WithSuffixRemoved(env.name) = env.name => decrypted = NoTarball
            /\ home = [pc |-> "start", op |-> "import", ssh |-> ssh, tarball |-> NoTarball,
                       encrypted |-> encrypted, decrypted |-> decrypted, env |-> env,
                       result |-> FALSE, extracted |-> <<>>, skipped |-> <<>>]

ExportSshKeys ==
    /\ home.pc = "start" /\ home.op = "export"
    /\ \E r \in {export_ssh_keys(home, targets, home.env.selected, home.env.tar, home.env.gpg)} :
        home' = [home EXCEPT !.pc = "done", !.result = r.result,
                             !.tarball = r.tarball, !.encrypted = r.encrypted]
    /\ UNCHANGED <<file, DEFAULT_ENABLED_MODULES, ops, ret, docker, targets, cli, procs, confdir, git, personal>>

ImportSshKeys ==
    /\ home.pc = "start" /\ home.op = "import"
    /\ \E r \in {import_ssh_keys(home, targets, home.env)} :
        /\ home' = [home EXCEPT !.pc = "done", !.result = r.outcome.result,
                                !.ssh = r.outcome.ssh,
                                !.encrypted = r.encrypted,
                                !.decrypted = r.outcome.decrypted,
                                !.extracted = r.outcome.extracted,
                                !.skipped = r.outcome.skipped]
        /\ targets' = r.outcome.targets
    /\ UNCHANGED <<file, DEFAULT_ENABLED_MODULES, ops, ret, docker, cli, procs, confdir, git, personal>>

NextBackup == ExportSshKeys \/ ImportSshKeys

SpecBackup == InitBackup /\ [][NextBackup]_vars

(***************************************************************************)
(* docker clean                                                            *)
(***************************************************************************)
\* the command of docker_clean_extensive
ExtensiveSteps == << <<"docker", "system", "prune", "-af">> >>

\* the commands of docker_clean_minimal, in the order of the function body
MinimalSteps ==
    << <<"docker", "container", "prune", "-f", "--filter", "until=24h">>,
       <<"docker", "image", "prune", "-f">>,
       <<"docker", "network", "prune", "-f">>,
       <<"docker", "builder", "prune", "-f", "--filter", "until=168h">> >>

\* what one subprocess.run(..., check=True) meets: exit status 0, a non-zero exit
\* status (CalledProcessError), or no docker binary (FileNotFoundError)
RunOutcomes == {"ok", "nonzero", "not_found"}

\* RunSteps going on to the next step after a step that exits non-zero
RECURSIVE RunSteps_Continue(_, _, _, _)
RunSteps_Continue(steps, env, i, calls) ==
    IF i > Len(steps)
    THEN [calls |-> calls, exit_code |-> 0, raised |-> FALSE]
    ELSE CASE env[i] = "ok" -> RunSteps_Continue(steps, env, i + 1, Append(calls, steps[i]))
           [] env[i] = "nonzero" -> RunSteps_Continue(steps, env, i + 1, Append(calls, steps[i]))
           [] env[i] = "not_found" ->
                [calls |-> Append(calls, steps[i]), exit_code |-> 1, raised |-> TRUE]

\* the statements of one try block: each subprocess.run is issued in turn; a
\* CalledProcessError is caught and ends in sys.exit(1), a FileNotFoundError is not
\* caught and leaves the function (the interpreter then exits with status 1)
RECURSIVE RunSteps(_, _, _, _)
RunSteps(steps, env, i, calls) ==
    IF i > Len(steps)
    THEN [calls |-> calls, exit_code |-> 0, raised |-> FALSE]
    ELSE CASE env[i] = "ok" -> RunSteps(steps, env, i + 1, Append(calls, steps[i]))
           [] env[i] = "nonzero" ->
                [calls |-> Append(calls, steps[i]), exit_code |-> 1, raised |-> FALSE]
           [] env[i] = "not_found" ->
                [calls |-> Append(calls, steps[i]), exit_code |-> 1, raised |-> TRUE]

docker_clean_extensive(env) == RunSteps(ExtensiveSteps, env, 1, <<>>)

docker_clean_minimal(env) == RunSteps(MinimalSteps, env, 1, <<>>)

\* docker_clean_command defaulting to the extensive cleanup
docker_clean_command_DefaultExtensive(extensive, minimal, env) ==
    IF extensive THEN docker_clean_extensive(env)
    ELSE IF minimal THEN docker_clean_minimal(env)
    ELSE docker_clean_extensive(env)

\* docker_clean_command(args)
docker_clean_command(extensive, minimal, env) ==
    IF extensive THEN docker_clean_extensive(env)
    ELSE IF minimal THEN docker_clean_minimal(env)
    ELSE docker_clean_minimal(env)

\* the run starts with the flags given and with what each docker call will meet
InitDocker ==
    /\ Elsewhere
    /\ file = MissingFile
    /\ DEFAULT_ENABLED_MODULES = DefaultEnabledAtImport
    /\ ops = 0
    /\ ret = NoCall
    /\ SshIdle
    /\ \E extensive, minimal \in BOOLEAN, env \in [1..Len(MinimalSteps) -> RunOutcomes] :
        docker = [pc |-> "start", extensive |-> extensive, minimal |-> minimal,
                  env |-> env, calls |-> <<>>, exit_code |-> 0, raised |-> FALSE]

DockerCleanCommand ==
    /\ docker.pc = "start"
    /\ LET r == docker_clean_command(docker.extensive, docker.minimal, docker.env)
       IN  docker' = [docker EXCEPT !.pc = "done", !.calls = r.calls,
                                    !.exit_code = r.exit_code, !.raised = r.raised]
    /\ UNCHANGED <<file, DEFAULT_ENABLED_MODULES, ops, ret, targets, cli, procs, home, confdir, git, personal>>

NextDocker == DockerCleanCommand

SpecDocker == InitDocker /\ [][NextDocker]_vars

(***************************************************************************)
(* save_modules_config followed by load_modules_config                     *)
(***************************************************************************)
\* module_info entries a caller may hand to save_modules_config for one module:
\* flags either way, with and without the dependencies field
InfoEntries(module_name) ==
    {("enabled" :> e) @@ ("description" :> AVAILABLE_MODULES[module_name].description) @@
     ("commands" :> AVAILABLE_MODULES[module_name].commands) @@ ("dependencies" :> <<"GitPython">>) :
        e \in BOOLEAN}
    \cup
    {("enabled" :> e) @@ ("description" :> "") : e \in BOOLEAN}

\* the module names the saved configs are built from
SavedNames == {"ssh_manager", "docker_manager"}

\* lists over the saved names and a consolidated name, duplicates included
RECURSIVE AnyLists(_)
AnyLists(n) ==
    IF n = 0 THEN {<<>>}
    ELSE AnyLists(n-1) \cup
         {Append(l, m) : <<l, m>> \in
            {p \in AnyLists(n-1) \X (SavedNames \cup {"ssh_backup"}) : Len(p[1]) = n-1}}

\* configs that contain enabled_modules and module_info: any list, module_info for any
\* subset of the saved names with any flags, with or without created_at and with or
\* without a legacy boolean flag beside them
SavedConfigs ==
    {("enabled_modules" :> l) @@ ("module_info" :> mi) @@ extra :
        l \in AnyLists(MaxEnabled),
        mi \in UNION {{f \in [S -> UNION {InfoEntries(n) : n \in SavedNames}] :
                            \A n \in S : f[n] \in InfoEntries(n)} : S \in SUBSET SavedNames},
        extra \in {<<>>, ("created_at" :> created_at_now), ("docker_manager" :> TRUE)}}

\* one save, made first
SaveModulesConfig ==
    /\ ret.op = "none"
    /\ \E config \in SavedConfigs, out \in SaveOutcomes :
        /\ file' = save_modules_config(config, file, out)
        /\ ret' = [NoCall EXCEPT !.op = "save_modules_config", !.arg = config,
                                 !.result = (out = "ok")]
    /\ ops' = ops + 1
    /\ UNCHANGED <<DEFAULT_ENABLED_MODULES, docker, targets, cli, procs, home, confdir, git, personal>>

\* load_modules_config, keeping the config handed to the save before it
LoadAfterSave ==
    /\ ret.op = "save_modules_config"
    /\ \E out \in LoadSaveOutcomes :
       \E r \in {load_modules_config(file, DEFAULT_ENABLED_MODULES, out)} :
            /\ file' = r.file
            /\ ret' = [NoCall EXCEPT !.op = "load_modules_config", !.arg = ret.arg,
                                     !.result = ret.result,
                                     !.raised = r.raised, !.config = r.config]
    /\ UNCHANGED <<DEFAULT_ENABLED_MODULES, ops, docker, targets, cli, procs, home, confdir, git, personal>>

NextRoundTrip == SaveModulesConfig \/ LoadAfterSave

SpecRoundTrip == Init /\ [][NextRoundTrip]_vars

(***************************************************************************)
(* config restore (modules/config_manager.py; modules/config_backup.py     *)
(* holds the same functions): merge_configs and restore_config.  A         *)
(* directory is a record: whether it exists, its modules_config.json, and  *)
(* where its other files come from.                                        *)
(***************************************************************************)
\* the orders list(a_set) can give: the order of a set's elements is not fixed
SetOrders == {"ascending", "descending"}

\* list(s) for a set s of strings
ListOfSet(s, order) ==
    LET ascending == SelectSeq(KeyOrder, LAMBDA k : k \in s)
    IN  IF order = "ascending" THEN ascending
        ELSE [i \in 1..Len(ascending) |-> ascending[Len(ascending) + 1 - i]]

\* dict.get("enabled_modules", [])
EnabledOf(config) ==
    IF "enabled_modules" \in DOMAIN config THEN config["enabled_modules"] ELSE <<>>

\* the entry merge_configs stores for a module both configs describe: the local entry
\* with the remote enabled flag, and with the remote fields the local entry lacks
MergedData(local_data, module_data) ==
    (IF "enabled" \in DOMAIN module_data
     THEN ("enabled" :> module_data["enabled"]) ELSE <<>>) @@ local_data @@ module_data

\* merge_configs(local_config, remote_config); order is the order list(set) gives
merge_configs(local_config, remote_config, order) ==
    LET merged_info ==
            [module_name \in DOMAIN local_config["module_info"]
                               \cup DOMAIN remote_config["module_info"] |->
                IF module_name \notin DOMAIN local_config["module_info"]
                THEN remote_config["module_info"][module_name]
                ELSE IF module_name \notin DOMAIN remote_config["module_info"]
                THEN local_config["module_info"][module_name]
                ELSE MergedData(local_config["module_info"][module_name],
                                remote_config["module_info"][module_name])]
        with_info ==
            IF "module_info" \in DOMAIN remote_config /\ "module_info" \in DOMAIN local_config
            THEN ("module_info" :> merged_info) @@ local_config
            ELSE local_config
    IN  IF "enabled_modules" \in DOMAIN remote_config
        THEN ("enabled_modules" :>
                ListOfSet(Range(EnabledOf(local_config))
                            \cup Range(remote_config["enabled_modules"]), order)) @@ with_info
        ELSE with_info

\* a directory that does not exist
NoDir == [exists |-> FALSE, modules |-> MissingFile, others |-> "none"]

\* a directory holding modules_config.json (a file as above) and other files
Dir(modules, others) == [exists |-> TRUE, modules |-> modules, others |-> others]

\* the backup file is not there
NoArchive == [exists |-> FALSE, unpacks |-> FALSE, maxcli |-> NoDir]

\* a backup file: whether shutil.unpack_archive reads it, and the maxcli directory in it
Archive(unpacks, maxcli) == [exists |-> TRUE, unpacks |-> unpacks, maxcli |-> maxcli]

\* extract_backup(backup_file): success and the extracted maxcli directory
extract_backup(archive) ==
    IF ~archive.exists THEN [success |-> FALSE, extracted |-> NoDir]
    ELSE IF ~archive.unpacks THEN [success |-> FALSE, extracted |-> NoDir]
    ELSE IF ~archive.maxcli.exists THEN [success |-> FALSE, extracted |-> NoDir]
    ELSE [success |-> TRUE, extracted |-> archive.maxcli]

\* json.load of one modules_config.json raises: no file, or no JSON in it
LoadRaises(f) == f.kind # "json"

\* what restore_config leaves: its result, the configuration directory, the copy of
\* the directory made aside (maxcli_backup_<time>)
Restored(result, dir, safety) == [result |-> result, dir |-> dir, safety |-> safety]

\* the statements of restore_config after the merge: copy the directory aside, remove
\* it, copy the extracted directory in its place.  env.copy is what the copy aside
\* meets, env.replace what the copy of the extracted directory meets.
ReplaceDir(config_dir, extracted_dir, env) ==
    IF config_dir.exists /\ env.copy = "fails"
    THEN Restored(FALSE, config_dir, NoDir)
    ELSE
    LET safety == IF config_dir.exists THEN config_dir ELSE NoDir
    IN  IF env.replace = "fails"
        THEN Restored(FALSE, Dir(MissingFile, "none"), safety)
        ELSE Restored(TRUE, extracted_dir, safety)

\* restore_config(backup_file, merge).  The merged config is written with
\* json.dump(merged_config, f, indent=2); the order of the keys in that text is
\* not kept here (json.load does not see it).
restore_config(config_dir, archive, merge, env) ==
    LET extraction == extract_backup(archive)
        extracted_dir == extraction.extracted
    IN
    IF ~extraction.success THEN Restored(FALSE, config_dir, NoDir)
    ELSE IF merge /\ config_dir.exists
    THEN IF LoadRaises(config_dir.modules) \/ LoadRaises(extracted_dir.modules)
              \/ env.write = "denied"
         THEN Restored(FALSE, config_dir, NoDir)
         ELSE LET merged_config == merge_configs(JsonLoad(config_dir.modules.text),
                                                 JsonLoad(extracted_dir.modules.text),
                                                 env.order)
              IN  ReplaceDir([config_dir EXCEPT !.modules = JsonFile(JsonDump(merged_config))],
                             extracted_dir, env)
    ELSE ReplaceDir(config_dir, extracted_dir, env)

(***************************************************************************)
(* One run of config restore over the directories and backups the tool     *)
(* can meet                                                                *)
(***************************************************************************)
\* the enabled lists of the configs in the directory and in the backup
RestoreLists ==
    {<<>>, <<"ssh_manager">>, <<"docker_manager">>, <<"ssh_manager", "docker_manager">>}

\* module configs as the tool writes them, and one from before module_info existed
RestoreConfigs ==
    {create_config_with_modules(l) : l \in RestoreLists}
        \cup {("enabled_modules" :> <<"ssh_manager", "ssh_backup">>)}

\* modules_config.json in a directory: none, no JSON in it, a config
RestoreFiles == {MissingFile, MalformedFile} \cup {JsonFile(JsonDump(c)) : c \in RestoreConfigs}

\* the configuration directory at the start of a restore
LocalDirs == {NoDir} \cup {Dir(f, "local") : f \in RestoreFiles}

\* the backup file handed to restore_config
Archives ==
    {NoArchive, Archive(FALSE, NoDir), Archive(TRUE, NoDir)}
        \cup {Archive(TRUE, Dir(f, "backup")) : f \in RestoreFiles}

\* what a restore meets: the write of the merged file, the copy aside, the copy of the
\* extracted directory, the order of list(set)
RestoreEnvs ==
    [write : SaveOutcomes, copy : {"ok", "fails"}, replace : {"ok", "fails"},
     order : SetOrders]

InitRestore ==
    /\ file = MissingFile
    /\ DEFAULT_ENABLED_MODULES = DefaultEnabledAtImport
    /\ ops = 0
    /\ ret = NoCall
    /\ docker = DockerIdle
    /\ SshIdle
    /\ git = GitIdle
    /\ personal = NoPersonal
    /\ \E dir \in LocalDirs, archive \in Archives, merge \in BOOLEAN, env \in RestoreEnvs :
        confdir = [pc |-> "start", dir |-> dir, archive |-> archive, merge |-> merge,
                   env |-> env, result |-> FALSE, safety |-> NoDir]

RestoreConfig ==
    /\ confdir.pc = "start"
    /\ \E r \in {restore_config(confdir.dir, confdir.archive, confdir.merge, confdir.env)} :
        confdir' = [confdir EXCEPT !.pc = "done", !.result = r.result,
                                   !.dir = r.dir, !.safety = r.safety]
    /\ UNCHANGED <<file, DEFAULT_ENABLED_MODULES, ops, ret, docker, targets, cli, procs, home, git, personal>>

NextRestore == RestoreConfig

SpecRestore == InitRestore /\ [][NextRestore]_vars

(***************************************************************************)
(* update_module_info_if_needed over the configs a caller can hand to it   *)
(***************************************************************************)
\* configs whose module_info has an entry for every registered module: as the tool
\* writes them, with the entries of the saved names stale, incomplete or carrying
\* dependencies, and with an entry of a name the registry does not know
FullConfigs ==
    {[c EXCEPT !["module_info"] = mi @@ @] :
        c \in {create_config_with_modules(l) : l \in AnyLists(MaxEnabled)},
        mi \in {f \in [SavedNames -> UNION {InfoEntries(n) : n \in SavedNames}] :
                    \A n \in SavedNames : f[n] \in InfoEntries(n)}
               \cup {<<>>, ("ssh_backup" :> [enabled |-> TRUE])}}

\* the configs update_module_info_if_needed is called with: complete ones, ones with
\* entries for some modules only, one without module_info, one without either key
UpdateArgs ==
    FullConfigs \cup SavedConfigs
        \cup {("enabled_modules" :> <<"ssh_manager", "ssh_backup">>),
              ("created_at" :> created_at_now)}

InitUpdateInfo ==
    /\ file = MissingFile
    /\ DEFAULT_ENABLED_MODULES = DefaultEnabledAtImport
    /\ ops = 0
    /\ \E config \in UpdateArgs : ret = [NoCall EXCEPT !.arg = config]
    /\ docker = DockerIdle
    /\ SshIdle
    /\ Elsewhere

\* update_module_info_if_needed(config) on the config the caller holds
UpdateModuleInfoIfNeeded ==
    /\ ret.op = "none"
    /\ \E r \in {update_module_info_if_needed(ret.arg)} :
        ret' = [ret EXCEPT !.op = "update_module_info_if_needed",
                           !.config = r.config, !.result = r.modified]
    /\ UNCHANGED <<file, DEFAULT_ENABLED_MODULES, ops, docker, targets, cli, procs, home, confdir, git, personal>>

NextUpdateInfo == UpdateModuleInfoIfNeeded

SpecUpdateInfo == InitUpdateInfo /\ [][NextUpdateInfo]_vars

(***************************************************************************)
(* load_modules_config over files in the legacy format                     *)
(***************************************************************************)
\* the names a legacy file can carry: registered, consolidated and unknown ones
LegacyNames ==
    {"ssh_manager", "docker_manager", "kubernetes_manager", "ssh_backup", "nonexistent_module"}

\* legacy files: any of these names, each mapped to true or to false
LegacyFiles ==
    {JsonFile(DumpDict(flags)) : flags \in UNION {[S -> BOOLEAN] : S \in SUBSET LegacyNames}}

InitLegacy ==
    /\ file \in LegacyFiles \cup InitFiles
    /\ DEFAULT_ENABLED_MODULES = DefaultEnabledAtImport
    /\ ops = 0
    /\ ret = NoCall
    /\ docker = DockerIdle
    /\ SshIdle
    /\ Elsewhere

NextLegacy == LoadModulesConfig

SpecLegacy == InitLegacy /\ [][NextLegacy]_vars

(***************************************************************************)
(* git sync (commands/git.py): the git commands git_sync_command issues    *)
(* over a work tree and a stash stack, and what they leave                 *)
(***************************************************************************)
\* the work tree: nothing to commit, changes to tracked files, untracked files only
WorkTrees == {"clean", "tracked", "untracked"}

\* what one git command meets: it succeeds or raises GitCommandError
GitOutcomes == {"ok", "fails"}

\* GitManager.has_changes(): is_dirty(), or untracked files, or a staged diff
has_changes(tree) == tree # "clean"

\* git stash push -m <message>: changes to tracked files are saved as a new entry on
\* top of the stack; with untracked files only git prints "No local changes to save",
\* exits 0 and saves nothing
StashPush(tree, stash) == IF tree = "tracked" THEN <<"auto">> \o stash ELSE stash

\* what git_sync_command leaves: its exit code, the commands issued, the stash stack,
\* the entry git stash pop applied
Synced(exit_code, calls, stash, popped) ==
    [exit_code |-> exit_code, calls |-> calls, stash |-> stash, popped |-> popped]

\* the finally clause: git stash pop if stashed is set.  On an empty stack git fails
\* with "No stash entries found"; the GitError is answered with a warning.
Unstash(stashed, exit_code, calls, stash, env) ==
    IF ~stashed THEN Synced(exit_code, calls, stash, "none")
    ELSE IF env.pop = "fails" \/ stash = <<>>
    THEN Synced(exit_code, Append(calls, "stash pop"), stash, "none")
    ELSE Synced(exit_code, Append(calls, "stash pop"), Tail(stash), Head(stash))

\* the try block after the stash: fetch, verify the upstream ref, rebase
SyncAfterStash(stashed, calls, stash, env) ==
    IF env.fetch = "fails"
    THEN Unstash(stashed, 1, Append(calls, "fetch"), stash, env)
    ELSE IF env.verify = "fails"
    THEN Unstash(stashed, 0, calls \o <<"fetch", "rev-parse">>, stash, env)
    ELSE Unstash(stashed, 0, calls \o <<"fetch", "rev-parse", "rebase">>, stash, env)

\* git_sync_command(args, git_manager)
git_sync_command(detached, tree, stash, env) ==
    IF detached THEN Synced(0, <<>>, stash, "none")
    ELSE IF has_changes(tree)
    THEN IF env.push = "fails"
         THEN Synced(1, <<"stash push">>, stash, "none")
         ELSE SyncAfterStash(TRUE, <<"stash push">>, StashPush(tree, stash), env)
    ELSE SyncAfterStash(FALSE, <<>>, stash, env)

\* the stash stack before the run: empty, or one entry the user saved earlier
Stashes == {<<>>, <<"mine">>}

\* what the git commands of one run meet
GitEnvs == [push : GitOutcomes, fetch : GitOutcomes, verify : GitOutcomes,
            rebase : GitOutcomes, pop : GitOutcomes]

InitGit ==
    /\ file = MissingFile
    /\ DEFAULT_ENABLED_MODULES = DefaultEnabledAtImport
    /\ ops = 0
    /\ ret = NoCall
    /\ docker = DockerIdle
    /\ SshIdle
    /\ confdir = NoRestore
    /\ personal = NoPersonal
    /\ \E detached \in BOOLEAN, tree \in WorkTrees, stash \in Stashes, env \in GitEnvs :
        git = [pc |-> "start", detached |-> detached, tree |-> tree, before |-> stash,
               env |-> env, exit_code |-> 0, calls |-> <<>>, stash |-> stash,
               popped |-> "none"]

GitSyncCommand ==
    /\ git.pc = "start"
    /\ \E r \in {git_sync_command(git.detached, git.tree, git.stash, git.env)} :
        git' = [git EXCEPT !.pc = "done", !.exit_code = r.exit_code, !.calls = r.calls,
                           !.stash = r.stash, !.popped = r.popped]
    /\ UNCHANGED <<file, DEFAULT_ENABLED_MODULES, ops, ret, docker, targets, cli, procs, home, confdir, personal>>

NextGit == GitSyncCommand

SpecGit == InitGit /\ [][NextGit]_vars

(***************************************************************************)
(* load_modules_config over well-formed files in the new format            *)
(***************************************************************************)
\* well-formed files with an enabled_modules list: with module_info for every
\* registered module or for some, the flags agreeing with the list or not, and
\* without module_info
StoredFiles ==
    {JsonFile(JsonDump(c)) : c \in {u \in UpdateArgs : "enabled_modules" \in DOMAIN u}}
        \cup {JsonFile(JsonDump("enabled_modules" :> l)) : l \in AnyLists(MaxEnabled)}

InitStored ==
    /\ file \in StoredFiles
    /\ DEFAULT_ENABLED_MODULES = DefaultEnabledAtImport
    /\ ops = 0
    /\ ret = NoCall
    /\ docker = DockerIdle
    /\ SshIdle
    /\ Elsewhere

NextStored == LoadModulesConfig

SpecStored == InitStored /\ [][NextStored]_vars

(***************************************************************************)
(* The three loads of persisted JSON: load_config (config.py),             *)
(* load_modules_config and load_ssh_targets, each over the file it reads   *)
(***************************************************************************)
\* load_config with a malformed file raising instead of giving {}
load_config_MalformedRaises(f) ==
    CASE f.kind = "missing" -> [raised |-> FALSE, config |-> <<>>]
      [] f.kind = "malformed" -> [raised |-> TRUE, config |-> <<>>]
      [] f.kind = "undecodable" -> [raised |-> TRUE, config |-> <<>>]
      [] f.kind = "json" -> [raised |-> FALSE, config |-> ParseDict(f.text)]

\* load_config(): the dict returned, and whether the call raised.  A missing file and
\* a file that is not JSON give {}; a file that is not UTF-8 raises
\* UnicodeDecodeError, which the except clause does not name.
load_config(f) ==
    CASE f.kind = "missing" -> [raised |-> FALSE, config |-> <<>>]
      [] f.kind = "malformed" -> [raised |-> FALSE, config |-> <<>>]
      [] f.kind = "undecodable" -> [raised |-> TRUE, config |-> <<>>]
      [] f.kind = "json" -> [raised |-> FALSE, config |-> ParseDict(f.text)]

\* config.json on disk: none, damaged ones, one written by config init
PersonalFiles ==
    {MissingFile, MalformedFile, UndecodableFile,
     JsonFile(<< <<"git_name", "Max">>, <<"git_email", "max@example.com">> >>)}

InitLoads ==
    /\ file \in InitFiles
    /\ DEFAULT_ENABLED_MODULES = DefaultEnabledAtImport
    /\ ops = 0
    /\ ret = NoCall
    /\ docker = DockerIdle
    /\ targets \in InitTargets
    /\ cli = NoInvocation
    /\ procs = NoProcs
    /\ home = NoHome
    /\ confdir = NoRestore
    /\ git = GitIdle
    /\ personal \in PersonalFiles

\* load_config()
LoadConfig ==
    /\ \E r \in {load_config(personal)} :
        ret' = [NoCall EXCEPT !.op = "load_config", !.raised = r.raised, !.config = r.config]
    /\ UNCHANGED <<file, DEFAULT_ENABLED_MODULES, ops, docker, targets, cli, procs, home, confdir, git, personal>>

\* load_ssh_targets()
LoadSshTargets ==
    /\ \E r \in {load_ssh_targets(targets)} :
        ret' = [NoCall EXCEPT !.op = "load_ssh_targets", !.raised = r.raised,
                              !.config = r.targets]
    /\ UNCHANGED <<file, DEFAULT_ENABLED_MODULES, ops, docker, targets, cli, procs, home, confdir, git, personal>>

NextLoads == LoadConfig \/ LoadModulesConfig \/ LoadSshTargets

SpecLoads == InitLoads /\ [][NextLoads]_vars

(***************************************************************************)
(* enable_module where the Python dependencies of a module can or cannot   *)
(* be satisfied                                                            *)
(***************************************************************************)
\* files in which git_manager is and is not enabled: those the tool starts on, a
\* config without git_manager, and one whose flag for it disagrees with the list
DepsFiles ==
    InitFiles \cup
    {JsonFile(JsonDump(create_config_with_modules(<<"ssh_manager", "git_manager">>))),
     JsonFile(JsonDump([SampleConfig EXCEPT !["module_info"]["git_manager"]["enabled"] = TRUE]))}

InitDeps ==
    /\ file \in DepsFiles
    /\ DEFAULT_ENABLED_MODULES = DefaultEnabledAtImport
    /\ ops = 0
    /\ ret = NoCall
    /\ docker = DockerIdle
    /\ SshIdle
    /\ Elsewhere

\* enable_module(module_name), once, in an environment where GitPython is importable
\* or installable (deps_ok) or neither
EnableModuleDeps ==
    /\ ret.op # "enable_module"
    /\ \E module_name \in ModuleNames, out1 \in LoadSaveOutcomes, out2 \in SaveOutcomes,
          deps_ok \in BOOLEAN :
       \E r \in {enable_module(file, DEFAULT_ENABLED_MODULES, module_name, out1, out2, deps_ok)} :
            /\ file' = r.file
            /\ DEFAULT_ENABLED_MODULES' = r.defaults
            /\ ret' = [NoCall EXCEPT !.op = "enable_module",
                                     !.arg = [module_name |-> module_name, deps_ok |-> deps_ok],
                                     !.result = r.result, !.raised = r.raised]
    /\ UNCHANGED <<ops, docker, targets, cli, procs, home, confdir, git, personal>>

NextDeps == EnableModuleDeps

SpecDeps == InitDeps /\ [][NextDeps]_vars

(***************************************************************************)
(* merge_configs over pairs of module configs                              *)
(***************************************************************************)
\* the enabled lists of the configs handed to merge_configs
MergeLists ==
    {SelectSeq(<<"ssh_manager", "docker_manager", "kubernetes_manager">>,
               LAMBDA n : n \in S) :
        S \in SUBSET {"ssh_manager", "docker_manager", "kubernetes_manager"}}

\* module configs as the tool writes them, and one from before module_info existed
MergeArgs ==
    {create_config_with_modules(l) : l \in MergeLists}
        \cup {("enabled_modules" :> <<"ssh_manager", "ssh_backup">>)}

InitMerge ==
    /\ file = MissingFile
    /\ DEFAULT_ENABLED_MODULES = DefaultEnabledAtImport
    /\ ops = 0
    /\ \E local_config \in MergeArgs, remote_config \in MergeArgs, order \in SetOrders :
        ret = [NoCall EXCEPT !.arg = [local_config |-> local_config,
                                      remote_config |-> remote_config, order |-> order]]
    /\ docker = DockerIdle
    /\ SshIdle
    /\ Elsewhere

\* merge_configs(local_config, remote_config) on the two configs the caller holds
MergeConfigs ==
    /\ ret.op = "none"
    /\ \E merged \in {merge_configs(ret.arg.local_config, ret.arg.remote_config, ret.arg.order)} :
        ret' = [ret EXCEPT !.op = "merge_configs", !.config = merged]
    /\ UNCHANGED <<file, DEFAULT_ENABLED_MODULES, ops, docker, targets, cli, procs, home, confdir, git, personal>>

NextMerge == MergeConfigs

SpecMerge == InitMerge /\ [][NextMerge]_vars

(***************************************************************************)
(* Properties of enable_module and disable_module                          *)
(***************************************************************************)
\* number of occurrences of x in list s
Count(s, x) == Cardinality({i \in 1..Len(s) : s[i] = x})

\* the mirror invariant of a config that has both keys
Mirrors(config) ==
    \A n \in DOMAIN config["module_info"] :
        /\ "enabled" \in DOMAIN config["module_info"][n]
        /\ config["module_info"][n]["enabled"] = In(n, config["enabled_modules"])

\* the file holds a new-format config with module_info
HasModuleConfig ==
    /\ file.kind = "json"
    /\ "enabled_modules" \in DOMAIN JsonLoad(file.text)
    /\ "module_info" \in DOMAIN JsonLoad(file.text)

\* C1: whatever enable_module and disable_module calls have been made, with whatever
\* names, a persisted module config has module_info[n].enabled true exactly for the
\* names n in its enabled_modules (checked from a missing file and from every other
\* file the tool starts on).
C1_MirrorInvariant == HasModuleConfig => Mirrors(JsonLoad(file.text))

\* C1 witness: from a missing file the defaults were created and two more modules
\* enabled, and the file mirrors the list
C1_Witness ==
    /\ HasModuleConfig
    /\ ops = 2
    /\ Range(JsonLoad(file.text)["enabled_modules"]) =
            Range(DefaultEnabledAtImport) \cup {"docker_manager", "kubernetes_manager"}
    /\ JsonLoad(file.text)["module_info"]["docker_manager"]["enabled"] = TRUE
    /\ JsonLoad(file.text)["module_info"]["gcp_manager"]["enabled"] = FALSE

\* C2 as stated: for every name outside the registry, enable_module and disable_module
\* return False without raising and leave the persisted config as it was.
C2_Original ==
    [][(ret'.op \in {"enable_module", "disable_module"} /\ ret'.arg \notin get_available_modules)
        => (~ret'.raised /\ ret'.result = FALSE /\ file' = file)]_vars

\* C2 amended: enable_module does so for every name outside the registry;
\* disable_module does so for every name outside the registry other than the
\* consolidated names ssh_backup and ssh_rsync, which it handles as legacy modules.
C2_UnknownNameRejected ==
    [][(\/ (ret'.op = "enable_module" /\ ret'.arg \notin get_available_modules)
        \/ (ret'.op = "disable_module"
            /\ ret'.arg \notin get_available_modules \cup LegacySshModules))
        => (~ret'.raised /\ ret'.result = FALSE /\ file' = file
            /\ DEFAULT_ENABLED_MODULES' = DEFAULT_ENABLED_MODULES)]_vars

\* C2 witness: an unknown name was rejected over a file whose load would have raised
C2_Witness ==
    /\ ret.op = "disable_module" /\ ret.arg = "nonexistent_module"
    /\ ret.result = FALSE /\ ~ret.raised
    /\ file.kind = "undecodable"

\* C3: disable_module(m) for a registered m that is not enabled, and enable_module(m)
\* for an m that is enabled, return True and leave enabled_modules as it was: the list
\* the next load returns is the list a load before the call would have returned (no
\* entry added twice), and a list already stored in the file is not rewritten.
C3_ToggleToSameStateIsNoOp ==
    [][(/\ ~NextLoad.raised
        /\ \/ (ret'.op = "disable_module" /\ ret'.arg \in get_available_modules
               /\ ~In(ret'.arg, NextLoad.config["enabled_modules"]))
           \/ (ret'.op = "enable_module" /\ ret'.arg \in get_available_modules
               /\ In(ret'.arg, NextLoad.config["enabled_modules"])))
        => (/\ ~ret'.raised /\ ret'.result = TRUE
            /\ ~LoadOf(file', DEFAULT_ENABLED_MODULES').raised
            /\ LoadOf(file', DEFAULT_ENABLED_MODULES').config["enabled_modules"] = NextLoad.config["enabled_modules"]
            /\ (file.kind = "json" /\ "enabled_modules" \in DOMAIN JsonLoad(file.text)
                => /\ file'.kind = "json"
                   /\ JsonLoad(file'.text)["enabled_modules"] = JsonLoad(file.text)["enabled_modules"]))]_vars

\* C3 witness: enabling ssh_manager, already enabled, reported success and the stored
\* list still names it once
C3_Witness ==
    /\ ret.op = "enable_module" /\ ret.arg = "ssh_manager" /\ ret.result = TRUE
    /\ ops = 2
    /\ HasModuleConfig
    /\ Count(JsonLoad(file.text)["enabled_modules"], "ssh_manager") = 1

\* the enabled flags of a config, per module
Flags(config) == [n \in DOMAIN config["module_info"] |-> config["module_info"][n]["enabled"]]

\* membership and flag of every module other than m agree in the two configs
SameExcept(before, after, m) ==
    /\ Range(before["enabled_modules"]) \ {m} = Range(after["enabled_modules"]) \ {m}
    /\ DOMAIN Flags(before) \ {m} = DOMAIN Flags(after) \ {m}
    /\ \A n \in DOMAIN Flags(before) \ {m} : Flags(before)[n] = Flags(after)[n]

C6_SaveLoadRoundTrip ==
    (ret.op = "load_modules_config" /\ ret.result = TRUE)
        => /\ ~ret.raised
           /\ ret.config["enabled_modules"] = ret.arg["enabled_modules"]
           /\ ret.config["module_info"] = ret.arg["module_info"]

\* C6 witness: a config whose list repeats a name, whose flags disagree with the list
\* and which carries a legacy flag came back as it was saved
C6_Witness ==
    /\ ret.op = "load_modules_config" /\ ret.result = TRUE
    /\ ret.arg["enabled_modules"] = <<"docker_manager", "docker_manager">>
    /\ "docker_manager" \in DOMAIN ret.arg
    /\ DOMAIN ret.arg["module_info"] = {"docker_manager"}
    /\ ret.arg["module_info"]["docker_manager"]["enabled"] = FALSE
    /\ ret.config["module_info"] = ret.arg["module_info"]
    /\ "docker_manager" \notin DOMAIN ret.config

\* C7 as stated: load_modules_config over a missing or malformed file does not raise
\* and returns a config whose enabled_modules is the fixed default set and whose
\* module_info has an entry for every registered module.
C7_DefaultsOnMissingOrMalformed ==
    [][(ret'.op = "load_modules_config" /\ file.kind \in {"missing", "malformed"})
        => /\ ~ret'.raised
           /\ Range(ret'.config["enabled_modules"]) = Range(DefaultEnabledAtImport)
           /\ NoDuplicates(ret'.config["enabled_modules"])
           /\ DOMAIN ret'.config["module_info"] = get_available_modules]_vars

C9_OnlyEnabledLoaded ==
    [][(ret'.op = "load_and_register_modules" /\ ~NextLoad.raised)
        => LET enabled_modules == NextLoad.config["enabled_modules"]
           IN  /\ Range(ret'.done.imported) \subseteq Range(enabled_modules)
               /\ Range(ret'.done.registered) \subseteq Range(enabled_modules)
               /\ (enabled_modules = <<>> => ret'.done = NothingLoaded)]_vars

\* C9 witness: only ssh_manager was enabled, and only it was imported and registered
C9_Witness ==
    /\ ret.op = "load_and_register_modules"
    /\ HasModuleConfig
    /\ JsonLoad(file.text)["enabled_modules"] = <<"ssh_manager">>
    /\ ret.done.imported = <<"ssh_manager">>
    /\ ret.done.registered = <<"ssh_manager">>

(***************************************************************************)
(* Properties of docker clean                                              *)
(***************************************************************************)
\* the steps up to and including the first that does not succeed (all when all succeed)
UpToFirstFailure(steps, env) ==
    LET failing == {i \in 1..Len(steps) : env[i] # "ok"}
    IN  IF failing = {} THEN steps
        ELSE SubSeq(steps, 1, CHOOSE i \in failing : \A j \in failing : i <= j)

\* C10 as stated: with neither flag set exactly the four minimal calls are issued, in
\* order; with extensive set exactly the one call docker system prune -af.
C10_Original ==
    docker.pc = "done" =>
        /\ (~docker.extensive /\ ~docker.minimal) => docker.calls = MinimalSteps
        /\ docker.extensive => docker.calls = ExtensiveSteps

\* C10 amended: with neither flag set the calls issued are container prune, image
\* prune, network prune, builder prune in that order, ending with the first call that
\* fails, so exactly these four when every call succeeds; with extensive set exactly
\* the one call docker system prune -af is issued and none of the minimal steps.
C10_CleanCallSequence ==
    docker.pc = "done" =>
        /\ (~docker.extensive /\ ~docker.minimal)
                => docker.calls = UpToFirstFailure(MinimalSteps, docker.env)
        /\ docker.extensive
                => /\ docker.calls = ExtensiveSteps
                   /\ Range(docker.calls) \cap Range(MinimalSteps) = {}

\* C10 witness: neither flag set, every call succeeded, the four calls were issued
C10_Witness ==
    /\ docker.pc = "done" /\ ~docker.extensive /\ ~docker.minimal
    /\ \A i \in 1..Len(MinimalSteps) : docker.env[i] = "ok"
    /\ docker.calls = MinimalSteps
    /\ docker.exit_code = 0

\* the index of the first step that does not succeed
FirstFailure(env) ==
    CHOOSE k \in 1..Len(MinimalSteps) :
        env[k] # "ok" /\ \A j \in 1..(k-1) : env[j] = "ok"

\* C11: when the k-th step of the minimal cleanup is the first to fail, exactly k docker
\* calls have been issued, they are the first k steps in order (no later step, no
\* retry, no call undoing an earlier step), and the process exit code is 1.
C11_FailureAtStepK ==
    (/\ docker.pc = "done" /\ ~docker.extensive
     /\ \E i \in 1..Len(MinimalSteps) : docker.env[i] # "ok")
    => LET k == FirstFailure(docker.env)
       IN  /\ Len(docker.calls) = k
           /\ docker.calls = SubSeq(MinimalSteps, 1, k)
           /\ docker.exit_code = 1

\* C11 witness: the second step exits non-zero after the first succeeded; two calls were
\* issued and the exit code is 1
C11_Witness ==
    /\ docker.pc = "done" /\ ~docker.extensive
    /\ docker.env[1] = "ok" /\ docker.env[2] = "nonzero"
    /\ Len(docker.calls) = 2
    /\ docker.exit_code = 1

(***************************************************************************)
(* Properties of the command line's exit code                              *)
(***************************************************************************)
\* some call the invocation made returned False
HandledFailure == \E i \in 1..Len(cli.returned) : cli.returned[i] = FALSE

\* C12: an invocation exits with code 0 only when its operation succeeded (every call
\* it made returned True and nothing raised), and an invocation whose operation ended
\* in a handled failure (a call returned False) exits with code 1.
C12_ExitCodeReflectsOutcome ==
    cli.command # "none" =>
        /\ cli.exit_code = 0 => (~cli.raised /\ ~HandledFailure)
        /\ HandledFailure => cli.exit_code = 1

(***************************************************************************)
(* Properties of concurrent invocations                                    *)
(***************************************************************************)
\* the list a load of the file as it is now returns
PersistedList == LoadOf(file, DefaultEnabledAtImport).config["enabled_modules"]

\* invocation p changed the list it had loaded and its save succeeded
Toggled(p) ==
    /\ procs[p].pc = "done" /\ procs[p].result /\ ~procs[p].raised
    /\ procs[p].loaded # <<>>
    /\ In(procs[p].module_name, procs[p].loaded.config["enabled_modules"])
            = (procs[p].op = "disable_module")

\* the change invocation p made is in the persisted file
ChangePersisted(p) ==
    In(procs[p].module_name, PersistedList) = (procs[p].op = "enable_module")

\* q loaded before p finished and finished after p
Overtaken(p, q) ==
    /\ p # q
    /\ procs[p].pc = "done" /\ procs[q].pc = "done"
    /\ p \notin procs[q].done_at_load
    /\ p \in procs[q].done_at_finish

\* C13: enable_module and disable_module hold no lock between reading and rewriting
\* modules_config.json: whenever two invocations toggling different modules both
\* succeed and one of them read the file before the other wrote it and wrote after,
\* the change of the other is missing from the persisted file.
C13_LostUpdate ==
    \A p, q \in Procs :
        (/\ procs # NoProcs
         /\ Overtaken(p, q) /\ Toggled(p) /\ Toggled(q)
         /\ procs[p].module_name # procs[q].module_name)
        => ~ChangePersisted(p) /\ ChangePersisted(q)

\* C13 witness: both invocations enabled a module and returned True, the second read
\* the file before the first wrote it, and the first one's module is not in the file
C13_Witness ==
    /\ procs # NoProcs
    /\ procs[1].op = "enable_module" /\ procs[2].op = "enable_module"
    /\ procs[1].module_name = "docker_manager" /\ procs[2].module_name = "kubernetes_manager"
    /\ Toggled(1) /\ Toggled(2) /\ Overtaken(1, 2)
    /\ ~In("docker_manager", PersistedList)
    /\ In("kubernetes_manager", PersistedList)

(***************************************************************************)
(* Properties of the SSH target profiles                                   *)
(***************************************************************************)
\* the target map stored in file f
StoredTargets(f) == load_ssh_targets(f).targets

\* the profile stored under name
ProfileOf(items, name) == items[TargetOf(items, name)][2]

\* C14: add_target never replaces a profile: called with a name that is a key of the
\* stored map it returns False and leaves the file as it is; and over every call of
\* add_target or remove_target a stored name keeps its profile unless that call is a
\* remove_target of this name that returned True.
C14_AddNeverReplaces ==
    [][\A name \in TargetNames :
        HasTarget(StoredTargets(targets), name) =>
            /\ (ret'.op = "add_target" /\ ret'.arg.name = name)
                    => (ret'.result = FALSE /\ targets' = targets)
            /\ HasTarget(StoredTargets(targets'), name)
                    => ProfileOf(StoredTargets(targets'), name)
                            = ProfileOf(StoredTargets(targets), name)
            /\ ~HasTarget(StoredTargets(targets'), name)
                    => (ret'.op = "remove_target" /\ ret'.arg.name = name /\ ret'.result)
      ]_vars

\* C14 witness: add_target was called for the stored name web with a valid profile
\* other than the stored one; it returned False and web still has its first profile
C14_Witness ==
    /\ ret.op = "add_target" /\ ret.arg.name = "web"
    /\ ret.arg.port = 65535 /\ ret.arg.key_kind = "file"
    /\ Strip(ret.arg.user) # <<>> /\ Strip(ret.arg.host) # <<>>
    /\ ~ret.result /\ ~ret.raised
    /\ HasTarget(StoredTargets(targets), "web")
    /\ ProfileOf(StoredTargets(targets), "web") = WebProfile

\* a str of whitespace only
Blank(str) == \A i \in 1..Len(str) : str[i] \in Whitespace

\* a profile with a non-blank user and host and a port in 1..65535
WellFormed(profile) ==
    /\ ~Blank(profile.user) /\ ~Blank(profile.host)
    /\ 1 <= profile.port /\ profile.port <= 65535

\* C15: add_target returns False and leaves the file as it is when the user or the host
\* is blank, the port is outside 1..65535 or the key path is not an existing file; a
\* call that returns True had a key path that was a file and stored the stripped user
\* and host, the port and the expanded key path; every profile in the file has a
\* non-blank user and host and a port in 1..65535.
C15_InvalidArgsWriteNothing ==
    [][ret'.op = "add_target" =>
        LET a == ret'.arg
            stored == StoredTargets(targets')
        IN  /\ (\/ Blank(a.user) \/ Blank(a.host)
                \/ a.port < 1 \/ a.port > 65535
                \/ a.key_kind # "file")
                    => (~ret'.result /\ ~ret'.raised /\ targets' = targets)
            /\ ret'.result
                    => /\ a.key_kind = "file"
                       /\ HasTarget(stored, a.name)
                       /\ ProfileOf(stored, a.name) =
                            [user |-> Strip(a.user), host |-> Strip(a.host),
                             port |-> a.port, key |-> Expanduser(a.key)]
            /\ \A i \in 1..Len(stored) : WellFormed(stored[i][2])
      ]_vars

\* C15 witness: add_target was called for a new name with port 0 and otherwise valid
\* arguments; it returned False and the name is not stored
C15_Witness ==
    /\ ret.op = "add_target" /\ ret.arg.name = "db"
    /\ ret.arg.port = 0 /\ ret.arg.key_kind = "file"
    /\ ~Blank(ret.arg.user) /\ ~Blank(ret.arg.host)
    /\ ~ret.result
    /\ targets.kind = "json"
    /\ ~HasTarget(StoredTargets(targets), "db")

\* C16: an add-target invocation whose port on the command line is an integer outside
\* 1..65535 (0 and negative ports included) stores no target: the file stays as it is.
C16_OutOfRangePortStoresNothing ==
    [][(/\ cli'.command = "ssh add-target"
        /\ ~ArgparsePort(cli'.argv.port).error
        /\ ~(1 <= ArgparsePort(cli'.argv.port).value
             /\ ArgparsePort(cli'.argv.port).value <= 65535))
       => targets' = targets
      ]_vars

(***************************************************************************)
(* Properties of the SSH key backup                                        *)
(***************************************************************************)
\* the export got as far as create_backup_tarball
TarballCreationStarted ==
    /\ home.op = "export"
    /\ find_ssh_private_keys(home.ssh) # <<>>
    /\ home.env.selected # <<>>

\* C18: when export_ssh_keys has returned after tarball creation started, the
\* unencrypted tarball does not exist, whatever the tarball creation and the
\* encryption met.
C18_NoPlaintextTarballLeft ==
    (home # NoHome /\ home.pc = "done" /\ TarballCreationStarted) => ~home.tarball.exists

\* C17: whenever a step has written ssh_targets.json (through save_ssh_targets in
\* add_target / remove_target, or by extracting it from a backup), the file's mode is
\* 600 when the step is over.
C17_TargetsFileMode600 ==
    [][targets' # targets => targets'.mode = "600"]_vars

\* the import got as far as decrypt_backup_with_gpg
DecryptionAttempted ==
    /\ home.op = "import"
    /\ home.env.selected
    /\ home.encrypted.exists

OverwriteAllowed(name) ==
    \/ home.env.menu = "1"
    \/ home.env.menu = "3" /\ home.env.answers[name]

C21_SafetyCopyIsOriginal ==
    [][(confdir # NoRestore /\ confdir.pc = "start" /\ confdir'.safety.exists)
            => confdir'.safety = confdir.dir]_vars

\* C22: after restore_config(backup_file, merge=True) has returned True over an
\* existing local configuration, modules_config.json in the configuration directory
\* holds merge_configs(local, backup), the locally enabled modules included.
C22_MergedConfigKept ==
    [][(/\ confdir # NoRestore /\ confdir.pc = "start"
        /\ confdir.merge /\ confdir.dir.exists /\ confdir'.result)
            => /\ confdir'.dir.modules.kind = "json"
               /\ JsonLoad(confdir'.dir.modules.text)
                    = merge_configs(JsonLoad(confdir.dir.modules.text),
                                    JsonLoad(confdir.archive.maxcli.modules.text),
                                    confdir.env.order)
               /\ Range(EnabledOf(JsonLoad(confdir.dir.modules.text)))
                    \subseteq Range(EnabledOf(JsonLoad(confdir'.dir.modules.text)))]_vars

(***************************************************************************)
(* Properties of update_module_info_if_needed and of loading               *)
(***************************************************************************)
\* update_module_info_if_needed has been applied to ret.arg and gave ret.config
UpdateDone == ret.op = "update_module_info_if_needed"

LegacyFormat(f) == f.kind = "json" /\ "enabled_modules" \notin DOMAIN ParseDict(f.text)

\* the registered module names a legacy file maps to true
LegacyTrue(f) ==
    {n \in DOMAIN ParseDict(f.text) :
        n \in DOMAIN AVAILABLE_MODULES /\ ParseDict(f.text)[n] = TRUE}

\* C24: loading a legacy-format file (no enabled_modules key, module names mapped to
\* booleans) returns a new-format config whose enabled_modules holds exactly the
\* registered names the file maps to true, with the module_info flags mirroring the
\* list; names mapped to false and names the registry does not know are not enabled.
C24_LegacyConversion ==
    [][(LegacyFormat(file) /\ ret'.op = "load_modules_config") =>
        /\ ~ret'.raised
        /\ {"enabled_modules", "module_info"} \subseteq DOMAIN ret'.config
        /\ Range(ret'.config["enabled_modules"]) = LegacyTrue(file)
        /\ NoDuplicates(ret'.config["enabled_modules"])
        /\ DOMAIN ret'.config["module_info"] = DOMAIN AVAILABLE_MODULES
        /\ Mirrors(ret'.config)]_vars

\* C24 witness: a legacy file with a registered name mapped to true, one mapped to
\* false and an unknown name mapped to true was loaded; only the first is enabled
C24_Witness ==
    /\ LegacyFormat(file)
    /\ ret.op = "load_modules_config"
    /\ {"ssh_manager", "docker_manager", "nonexistent_module"} \subseteq DOMAIN ParseDict(file.text)
    /\ ParseDict(file.text)["ssh_manager"]
    /\ ~ParseDict(file.text)["docker_manager"]
    /\ ParseDict(file.text)["nonexistent_module"]
    /\ ret.config["enabled_modules"] = <<"ssh_manager">>
    /\ ~ret.config["module_info"]["docker_manager"]["enabled"]

(***************************************************************************)
(* Properties of git sync                                                  *)
(***************************************************************************)
\* the run saved the local changes as a stash entry
StashedChanges ==
    /\ In("stash push", git.calls)
    /\ git.env.push = "ok"
    /\ StashPush(git.tree, git.before) # git.before

\* C25: whenever git_sync_command has stashed local changes it attempts exactly one
\* stash pop before it finishes, on every path after the stash (fetch failure, missing
\* upstream, rebase failure, success); when it did not stash, it never pops a stash.
C25_PopExactlyWhenStashed ==
    (git # GitIdle /\ git.pc = "done") =>
        /\ StashedChanges => Count(git.calls, "stash pop") = 1
        /\ ~StashedChanges => Count(git.calls, "stash pop") = 0

\* the file is well formed and has an enabled_modules list
NewFormat(f) == f.kind = "json" /\ "enabled_modules" \in DOMAIN ParseDict(f.text)

\* the mirror invariant of a config, false when module_info is missing
MirrorsFully(config) == "module_info" \in DOMAIN config /\ Mirrors(config)

\* C26 as stated: for every well-formed file with an enabled_modules list the config
\* load_modules_config returns satisfies the mirror invariant, even when the flags
\* stored in the file disagree with the list.
C26_Original ==
    [][(NewFormat(file) /\ ret'.op = "load_modules_config")
            => (~ret'.raised /\ MirrorsFully(ret'.config))]_vars

\* C26: load_modules_config builds module_info only when the file has none, and the
\* config it then returns satisfies the mirror invariant; a module_info that is in the
\* file is returned as stored, so the returned config satisfies the mirror invariant
\* exactly when the stored one does.
C26_LoadMirrorsOnlyWhenRebuilt ==
    [][(NewFormat(file) /\ ret'.op = "load_modules_config") =>
        LET stored == JsonLoad(file.text)
        IN  /\ ~ret'.raised
            /\ ret'.config["enabled_modules"] = stored["enabled_modules"]
            /\ "module_info" \notin DOMAIN stored =>
                    /\ MirrorsFully(ret'.config)
                    /\ DOMAIN ret'.config["module_info"] = DOMAIN AVAILABLE_MODULES
            /\ "module_info" \in DOMAIN stored =>
                    /\ ret'.config["module_info"] = stored["module_info"]
                    /\ MirrorsFully(ret'.config) <=> MirrorsFully(stored)]_vars

\* C26 witness: a file whose flags disagree with its list was loaded and came back
\* with the disagreement in it
C26_Witness ==
    /\ NewFormat(file)
    /\ ret.op = "load_modules_config"
    /\ "module_info" \in DOMAIN JsonLoad(file.text)
    /\ DOMAIN AVAILABLE_MODULES \subseteq DOMAIN ret.config["module_info"]
    /\ ret.config["module_info"]["docker_manager"]["enabled"]
    /\ ~In("docker_manager", ret.config["enabled_modules"])

\* the step is a call of the load named op
Loading(op) == ret'.op = op

\* C27 as stated: when config.json, modules_config.json or ssh_targets.json is
\* malformed, its load substitutes defaults in memory only and does not rewrite or
\* delete the file.
C27_Original ==
    [][/\ (Loading("load_config") /\ personal.kind = "malformed") => personal' = personal
       /\ (Loading("load_modules_config") /\ file.kind = "malformed") => file' = file
       /\ (Loading("load_ssh_targets") /\ targets.kind = "malformed") => targets' = targets
      ]_vars

\* C27: a load of a malformed config.json or ssh_targets.json returns {} and leaves
\* the file as it is; a load of a malformed modules_config.json returns the default
\* config and writes it over the file (the file stays as it is only when that write
\* fails).  No load of a malformed file raises or deletes the file.
C27_MalformedLoad ==
    [][/\ (Loading("load_config") /\ personal.kind = "malformed")
            => (personal' = personal /\ ~ret'.raised /\ ret'.config = <<>>)
       /\ (Loading("load_ssh_targets") /\ targets.kind = "malformed")
            => (targets' = targets /\ ~ret'.raised /\ ret'.config = <<>>)
       /\ (Loading("load_modules_config") /\ file.kind = "malformed")
            => /\ ~ret'.raised
               /\ ret'.config = create_config_with_modules(DEFAULT_ENABLED_MODULES)
               /\ file' \in {file, JsonFile(JsonDump(ret'.config))}
      ]_vars

\* C27 witness: a malformed ssh_targets.json was loaded, {} came back and the file is
\* still the malformed one
C27_Witness ==
    /\ ret.op = "load_ssh_targets"
    /\ targets.kind = "malformed"
    /\ ~ret.raised
    /\ ret.config = <<>>

(***************************************************************************)
(* Properties of enable_module and its dependency check                    *)
(***************************************************************************)
\* the step is an enable_module(m) that reaches the dependency check (m is registered,
\* the load returns, m is not enabled yet), m needs Python packages and they can
\* neither be imported nor installed
DependencyCheckFails(m) ==
    /\ ret'.op = "enable_module"
    /\ ret'.arg.module_name = m
    /\ m \in get_available_modules
    /\ ~NextLoad.raised
    /\ ~In(m, NextLoad.config["enabled_modules"])
    /\ m \in python_dependencies
    /\ ~ret'.arg.deps_ok

\* the enabled flag a file stores for module m, false where it stores none
StoredFlag(f, m) ==
    /\ f.kind = "json"
    /\ "module_info" \in DOMAIN JsonLoad(f.text)
    /\ m \in DOMAIN JsonLoad(f.text)["module_info"]
    /\ JsonLoad(f.text)["module_info"][m]["enabled"]

\* C28: if check_and_install_python_dependencies fails for a module, enable_module
\* returns False and the module is not enabled: it is not added to the persisted
\* enabled_modules and its module_info flag is not set.
C28_FailedDependenciesNotEnabled ==
    [][\A m \in ModuleNames : DependencyCheckFails(m) =>
        /\ ~ret'.raised
        /\ ~ret'.result
        /\ NewFormat(file') => ~In(m, JsonLoad(file'.text)["enabled_modules"])
        /\ StoredFlag(file', m) => StoredFlag(file, m)
        /\ DEFAULT_ENABLED_MODULES' = DEFAULT_ENABLED_MODULES]_vars

\* C28 witness: enable_module("git_manager") was called where GitPython cannot be had,
\* it returned False, and the file neither lists git_manager nor flags it
C28_Witness ==
    /\ ret.op = "enable_module"
    /\ ret.arg = [module_name |-> "git_manager", deps_ok |-> FALSE]
    /\ ~ret.result /\ ~ret.raised
    /\ HasModuleConfig
    /\ ~In("git_manager", JsonLoad(file.text)["enabled_modules"])
    /\ ~JsonLoad(file.text)["module_info"]["git_manager"]["enabled"]

(***************************************************************************)
(* Properties of merge_configs                                             *)
(***************************************************************************)
\* C29: if the local and the backup module config each satisfy the mirror invariant,
\* merge_configs returns a config that satisfies it too, with enabled_modules equal to
\* the union of the two enabled lists.
C29_MergeKeepsMirror ==
    (/\ ret.op = "merge_configs"
     /\ MirrorsFully(ret.arg.local_config)
     /\ MirrorsFully(ret.arg.remote_config))
        => /\ MirrorsFully(ret.config)
           /\ Range(ret.config["enabled_modules"])
                = Range(ret.arg.local_config["enabled_modules"])
                    \cup Range(ret.arg.remote_config["enabled_modules"])

(***************************************************************************)
(* Properties of the backup file an import reads                           *)
(***************************************************************************)
\* C30: import_ssh_keys never deletes or overwrites the encrypted backup file the user
\* selected, whatever its name (with or without a .gpg suffix, a custom path with no
\* suffix included) and on every exit path.
C30_BackupFileKept ==
    [][(home # NoHome /\ home.op = "import") => home'.encrypted = home.encrypted]_vars


====
